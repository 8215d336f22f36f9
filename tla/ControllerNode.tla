--------------------------- MODULE ControllerNode ---------------------------
(***************************************************************************)
(* What the two views of TemplateRos2Controller have in common: the        *)
(* lifecycle the controller manager drives, the subscriptions, and the     *)
(* state machine's current state, which moves only in an active controller *)
(* and is back in INIT whenever the controller is not.                     *)
(*                                                                         *)
(* LocomotionController says when the state moves and leaves the commands' *)
(* values out; OperatorCommands follows the values and lets the state move *)
(* at any time.  Both implement this module, which is why a property of    *)
(* either is one of the class.                                             *)
(***************************************************************************)
VARIABLES
    useDt7,      \* parameter use_dt7, read once by on_init
    lifecycle,   \* lifecycle state of the controller node
    subscribed,  \* the command subscriptions exist
    state        \* the state machine's current state

vars == <<useDt7, lifecycle, subscribed, state>>

States == {"INIT", "IDLE", "PREPARE", "RL"}

Init ==
    /\ useDt7 \in BOOLEAN
    /\ lifecycle = "unconfigured"
    /\ subscribed = FALSE
    /\ state = "INIT"

\* A transition of the state machine, or its reset by a backward time jump.
SwitchState ==
    /\ lifecycle = "active"
    /\ state' \in States
    /\ UNCHANGED <<useDt7, lifecycle, subscribed>>

Configure ==
    /\ lifecycle = "unconfigured"
    /\ lifecycle' = "inactive"
    /\ subscribed' = TRUE
    /\ UNCHANGED <<useDt7, state>>

Activate ==
    /\ lifecycle = "inactive"
    /\ lifecycle' = "active"
    /\ state' = "INIT"
    /\ UNCHANGED <<useDt7, subscribed>>

Deactivate ==
    /\ lifecycle = "active"
    /\ lifecycle' = "inactive"
    /\ state' = "INIT"
    /\ UNCHANGED <<useDt7, subscribed>>

Cleanup ==
    /\ lifecycle = "inactive"
    /\ lifecycle' = "unconfigured"
    /\ subscribed' = FALSE
    /\ UNCHANGED <<useDt7, state>>

Shutdown ==
    /\ lifecycle # "finalized"
    /\ lifecycle' = "finalized"
    /\ state' = "INIT"
    /\ UNCHANGED <<useDt7, subscribed>>

Next == SwitchState \/ Configure \/ Activate \/ Deactivate \/ Cleanup \/ Shutdown

Spec == Init /\ [][Next]_vars
=============================================================================
