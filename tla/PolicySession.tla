--------------------------- MODULE PolicySession ----------------------------
(***************************************************************************)
(* What StateRL and the inference session promise between them: an action  *)
(* of the policy is held only while the session runs, every run of the     *)
(* session begins without one, and stopping it or failing forgets it.      *)
(*                                                                         *)
(* LocomotionController decides when the session starts, is evaluated,     *)
(* fails and stops; PolicyPipeline follows the data through it.            *)
(***************************************************************************)
VARIABLES
    running,  \* ONNXRuntimeInference::running_
    held      \* StateRL holds joint targets computed by the policy

vars == <<running, held>>

Init == running = FALSE /\ held = FALSE

\* StateRL::enter
Start ==
    /\ ~running
    /\ running' = TRUE
    /\ held' = FALSE

\* One complete evaluation of the policy.
Evaluate ==
    /\ running
    /\ held' = TRUE
    /\ UNCHANGED running

\* StateRL::failSafe; the session itself goes on.
Fail ==
    /\ running
    /\ held' = FALSE
    /\ UNCHANGED running

\* StateRL::exit, or a reset of the state machine.
Stop ==
    /\ running
    /\ running' = FALSE
    /\ held' = FALSE

Next == Start \/ Evaluate \/ Fail \/ Stop

Spec == Init /\ [][Next]_vars
=============================================================================
