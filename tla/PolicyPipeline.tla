--------------------------- MODULE PolicyPipeline ---------------------------
(***************************************************************************)
(* What happens to the data of StateRL on its way from the sensors to the  *)
(* joints: the observation goes through a delay buffer in every cycle, the *)
(* policy is run in some of the cycles, and each joint's raw action goes   *)
(* through a filter of that joint's own.  run() is one action per call it  *)
(* makes, because each of them may fail and end the cycle in failSafe(),   *)
(* the filters' loop half-way through the joints included.  Which cycles   *)
(* are spent in RL is decided by LocomotionController; here they come and  *)
(* go freely.                                                              *)
(*                                                                         *)
(* A sample is known by the number of the cycle it was taken in, a raw     *)
(* action by the cycle of its inference, and a filtered action by the raw  *)
(* actions that enter it.                                                  *)
(***************************************************************************)
EXTENDS Integers, Sequences, Functions

CONSTANTS
  NumJoints,     \* kActionSize
  Delays,        \* values of the parameter observation_delay_steps
  Windows,       \* values of the parameter rl_action_filter_window
  PolicyPeriod,  \* 1 / inference_frequency_hz_, in control cycles
  MaxCycles      \* bound: control cycles in a behaviour

ASSUME JointsAssumption == NumJoints \in Nat \ {0}
ASSUME DelaysAssumption == Delays \subseteq Int
ASSUME WindowsAssumption == Windows \subseteq Int
ASSUME PeriodAssumption == PolicyPeriod \in Nat \ {0} /\ MaxCycles \in Nat

VARIABLES
  delay,          \* delay_steps_ of the observation buffer; 0 when disabled
  filter, window, \* action_filter_type_, action_filter_window_
  pc,             \* the next call of run()
  inRL,           \* StateRL is the state machine's current state
  running,        \* ONNXRuntimeInference::running_
  cycle,          \* the present control cycle; 0 before the first
  buffer,         \* observation_delay_buffer_
  observed,       \* the sample in this cycle's observation
  lastInference,  \* cycle of last_inference_time_; 0 when not initialised
  outputReady, outputOf,  \* output_ready_; whose output output_data_ is
  joint,          \* index of the loop over the joints
  averages,       \* action_ma_buffers_
  lowpass,        \* action_lp_last_output_
  staged,         \* filtered_action of this cycle
  action,         \* what last_actions_ and desired_pos_ are computed from
  samples,        \* history: samples built into observations since the reset
  inferences      \* history: inferences since the reset

settings == <<delay, filter, window>>
machine  == <<inRL, running>>
session  == <<outputReady, outputOf>>
filters  == <<averages, lowpass>>
history  == <<samples, inferences>>
vars == <<settings, pc, machine, cycle, buffer, observed, lastInference, session,
          joint, filters, staged, action, history>>

Joints == 1..NumJoints

LastUpTo(k, s) == IF Len(s) <= k THEN s ELSE SubSeq(s, Len(s) - k + 1, Len(s))

-----------------------------------------------------------------------------
(* Configuration, by on_init                                               *)

\* setObservationDelaySteps clamps below; setActionFilterConfig throws on a
\* window below one, and then on_init fails and there is no controller.
ConfigurePipeline ==
  /\ \E steps \in Delays, enabled \in BOOLEAN :
       delay = IF enabled /\ steps > 0 THEN steps ELSE 0
  /\ filter \in {"none", "moving_avg", "lowpass"}
  /\ window \in Windows /\ window >= 1

Init ==
  /\ ConfigurePipeline
  /\ pc = "ready" /\ inRL = FALSE /\ running = FALSE
  /\ cycle = 0 /\ buffer = << >> /\ observed = 0 /\ lastInference = 0
  /\ outputReady = FALSE /\ outputOf = 0
  /\ joint = 1
  /\ averages = [j \in Joints |-> << >>]
  /\ lowpass = [j \in Joints |-> {}]
  /\ staged = [j \in Joints |-> {}]
  /\ action = [j \in Joints |-> {}]
  /\ samples = << >> /\ inferences = << >>

-----------------------------------------------------------------------------
(* Entering, leaving and failing                                           *)

\* Mutant: the filters are left alone.
ResetPolicyWithoutFilters ==
  /\ lastInference' = 0
  /\ buffer' = << >>
  /\ action' = [j \in Joints |-> {}]
  /\ UNCHANGED filters

\* Mutant: the last actions and the joint targets stay.
ResetPolicyKeepingAction ==
  /\ lastInference' = 0
  /\ buffer' = << >>
  /\ averages' = [j \in Joints |-> << >>]
  /\ lowpass' = [j \in Joints |-> {}]
  /\ UNCHANGED action

ResetPolicyRuntimeState ==
  /\ lastInference' = 0
  /\ buffer' = << >>
  /\ action' = [j \in Joints |-> {}]
  /\ averages' = [j \in Joints |-> << >>]
  /\ lowpass' = [j \in Joints |-> {}]

StartAfresh == samples' = << >> /\ inferences' = << >>

\* The session: start() leaves an output that is waiting, stop() drops it.
Start == running' = TRUE /\ UNCHANGED session
Stop == running' = FALSE /\ outputReady' = FALSE /\ UNCHANGED outputOf

\* The state machine enters RL: the runtime is reset, the session started.
Enter ==
  /\ pc = "ready" /\ ~inRL
  /\ inRL' = TRUE
  /\ Start
  /\ ResetPolicyRuntimeState /\ StartAfresh
  /\ UNCHANGED <<settings, pc, cycle, observed, joint, staged>>

\* It leaves RL, for another state or by reset().
Exit ==
  /\ pc = "ready" /\ inRL
  /\ inRL' = FALSE
  /\ Stop
  /\ ResetPolicyRuntimeState /\ StartAfresh
  /\ UNCHANGED <<settings, pc, cycle, observed, joint, staged>>

\* The end of a cycle that fails: the runtime is reset. The state machine is
\* asked to leave RL, and does in a later cycle unless asked to stay.
FailSafe ==
  /\ pc' = "ready"
  /\ ResetPolicyRuntimeState /\ StartAfresh

\* A cycle in another state, or one whose IMU sample is invalid: run() is not
\* called and nothing is pushed.
OtherCycle ==
  /\ pc = "ready" /\ cycle < MaxCycles
  /\ cycle' = cycle + 1
  /\ UNCHANGED <<settings, pc, machine, buffer, observed, lastInference,
                 session, joint, filters, staged, action, history>>

-----------------------------------------------------------------------------
(* run()                                                                   *)

\* Mutant: the buffer is full one sample too late.
PushAndGetLate(sample) ==
  LET pushed == Append(buffer, sample)
  IN IF delay = 0 THEN observed' = sample /\ UNCHANGED buffer
     ELSE /\ observed' = Head(pushed)
          /\ buffer' = IF Len(pushed) <= delay + 1 THEN pushed ELSE Tail(pushed)

\* DelayBuffer::pushAndGet, bypassed when the delay is disabled.
PushAndGet(sample) ==
  LET pushed == Append(buffer, sample)
  IN IF delay = 0 THEN observed' = sample /\ UNCHANGED buffer
     ELSE /\ observed' = Head(pushed)
          /\ buffer' = IF Len(pushed) <= delay THEN pushed ELSE Tail(pushed)

ShouldInfer(now) == lastInference = 0 \/ now - lastInference >= PolicyPeriod

\* buildObservation: command, delayed sensors and last action; then, unless it
\* is not finite, the decision whether to run the policy.
BuildObservation ==
  /\ pc = "ready" /\ inRL /\ cycle < MaxCycles
  /\ cycle' = cycle + 1
  /\ PushAndGet(cycle')
  /\ samples' = Append(samples, cycle')
  /\ IF ShouldInfer(cycle')
       THEN pc' = "infer" /\ lastInference' = cycle'
       ELSE pc' = "apply" /\ UNCHANGED lastInference
  /\ UNCHANGED <<settings, machine, session, joint, filters, staged, action,
                 inferences>>

\* setRLInput: the session runs in the caller's thread.
Infer ==
  /\ pc = "infer" /\ running
  /\ outputReady' = TRUE /\ outputOf' = cycle
  /\ pc' = "output"
  /\ UNCHANGED <<settings, machine, cycle, buffer, observed, lastInference,
                 joint, filters, staged, action, history>>

\* getRLOutput hands an output out once.
TakeOutput ==
  /\ pc = "output" /\ outputReady
  /\ outputReady' = FALSE
  /\ pc' = "filter" /\ joint' = 1
  /\ UNCHANGED <<settings, machine, cycle, buffer, observed, lastInference,
                 outputOf, filters, staged, action, history>>

\* filterAction of one joint.
FilterAction(raw) ==
  LET recent == LastUpTo(window, Append(averages[joint], raw))
      smooth == lowpass[joint] \cup {raw}
  IN \/ /\ filter = "none"
        /\ staged' = [staged EXCEPT ![joint] = {raw}]
        /\ UNCHANGED filters
     \/ /\ filter = "moving_avg"
        /\ averages' = [averages EXCEPT ![joint] = recent]
        /\ staged' = [staged EXCEPT ![joint] = Range(recent)]
        /\ UNCHANGED lowpass
     \/ /\ filter = "lowpass"
        /\ lowpass' = [lowpass EXCEPT ![joint] = smooth]
        /\ staged' = [staged EXCEPT ![joint] = smooth]
        /\ UNCHANGED averages

FilterJoint ==
  /\ pc = "filter" /\ joint < NumJoints
  /\ FilterAction(outputOf)
  /\ joint' = joint + 1
  /\ UNCHANGED <<settings, pc, machine, cycle, buffer, observed, lastInference,
                 session, action, history>>

\* After the last joint all of them take their new action.
FilterLast ==
  /\ pc = "filter" /\ joint = NumJoints
  /\ FilterAction(outputOf)
  /\ action' = staged'
  /\ inferences' = Append(inferences, cycle)
  /\ pc' = "apply"
  /\ UNCHANGED <<settings, machine, cycle, buffer, observed, lastInference,
                 session, joint, samples>>

\* applyLowlevelControl sends the action, of this cycle or an earlier one.
Apply ==
  /\ pc = "apply"
  /\ pc' = "ready"
  /\ UNCHANGED <<settings, machine, cycle, buffer, observed, lastInference,
                 session, joint, filters, staged, action, history>>

\* The observation is not finite: what was just pushed is cleared again.
ObservationFails ==
  /\ pc = "ready" /\ inRL /\ cycle < MaxCycles
  /\ cycle' = cycle + 1
  /\ FailSafe
  /\ UNCHANGED <<settings, machine, observed, session, joint, staged>>

\* The session rejects the input or fails; its output, a filtered or scaled
\* action or a torque is not finite. An output that was taken is gone.
RunFails ==
  /\ pc \in {"infer", "output", "filter", "apply"}
  /\ outputReady' = (outputReady /\ pc \notin {"infer", "output"})
  /\ FailSafe
  /\ UNCHANGED <<settings, machine, cycle, observed, outputOf, joint, staged>>

Run == BuildObservation \/ Infer \/ TakeOutput \/ FilterJoint \/ FilterLast
         \/ Apply \/ ObservationFails \/ RunFails
Next == Enter \/ Exit \/ OtherCycle \/ Run

Spec == Init /\ [][Next]_vars

\* The pipeline seen as the session that LocomotionController starts and stops.
Session == INSTANCE PolicySession WITH held <- \E j \in Joints : action[j] # {}
SessionSpec == Session!Spec

-----------------------------------------------------------------------------
(* Properties                                                              *)

ReadOnlyTypeOK ==
  /\ delay \in Nat /\ window \in Nat \ {0}
  /\ filter \in {"none", "moving_avg", "lowpass"}

TypeOK ==
  /\ ReadOnlyTypeOK
  /\ pc \in {"ready", "infer", "output", "filter", "apply"}
  /\ inRL \in BOOLEAN /\ running \in BOOLEAN /\ outputReady \in BOOLEAN
  /\ cycle \in Nat /\ observed \in Nat /\ outputOf \in Nat
  /\ lastInference \in Nat
  /\ joint \in Joints
  /\ buffer \in Seq(Nat) /\ samples \in Seq(Nat) /\ inferences \in Seq(Nat)
  /\ averages \in [Joints -> Seq(Nat)]
  /\ lowpass \in [Joints -> SUBSET Nat]
  /\ staged \in [Joints -> SUBSET Nat] /\ action \in [Joints -> SUBSET Nat]

\* The raw actions a joint's filtered action is made of, after these inferences.
Filtered(infs) ==
  IF infs = << >> THEN {}
  ELSE CASE filter = "none"       -> {infs[Len(infs)]}
         [] filter = "moving_avg" -> Range(LastUpTo(window, infs))
         [] filter = "lowpass"    -> Range(infs)

\* The policy is given the sample taken exactly `delay` samples ago in this stay
\* in RL, or the stay's first while there are not as many: never one from
\* before the stay or before a failure, although the buffer is one object for
\* the controller's life (delay_buffer.hpp:50).
ObservationIsDelayed ==
  pc # "ready" =>
    observed = samples[IF Len(samples) <= delay THEN 1 ELSE Len(samples) - delay]

\* At any moment all joints, and the last action shown to the policy, stem from
\* the filter over the same inferences, those since the runtime was last reset,
\* although each joint has a filter of its own and a cycle may fail after some
\* of them have been fed and before the others (state_rl.cpp:112).
JointsInStep == \A j \in Joints : action[j] = Filtered(inferences)

\* What the buffers hold, in the middle of the loop over the joints too.
BufferMatchesSamples == buffer = LastUpTo(delay, samples)

Fed(j) == IF pc = "filter" /\ j < joint THEN Append(inferences, cycle)
                                       ELSE inferences

FiltersMatchInferences ==
  \A j \in Joints :
    /\ filter = "moving_avg" => averages[j] = LastUpTo(window, Fed(j))
    /\ filter = "lowpass" => lowpass[j] = Range(Fed(j))
    /\ pc = "filter" /\ j < joint => staged[j] = Filtered(Fed(j))

SessionMatchesCycle ==
  /\ outputReady => pc = "output"
  /\ pc = "output" \/ pc = "filter" => outputOf = cycle
  /\ pc # "ready" => inRL
  /\ running = inRL

InductiveInvariant ==
  /\ TypeOK
  /\ SessionMatchesCycle
  /\ BufferMatchesSamples
  /\ FiltersMatchInferences
  /\ ObservationIsDelayed
  /\ JointsInStep

=============================================================================
