---------------------------- MODULE TransmitGate ----------------------------
(***************************************************************************)
(* What the serial bridge promises to the robot: command packets flow only *)
(* through a gate that a valid state packet opens and any loss shuts, and  *)
(* only while the hardware is active; the one packet that may accompany a  *)
(* deactivation is the zero-gain stop.                                     *)
(***************************************************************************)
CONSTANT Packets     \* command packets the robot can receive

VARIABLES
    active,  \* the hardware component is active
    open,    \* the gate is open
    robot    \* last command packet the robot received, or None

vars == <<active, open, robot>>

None == "none"
StopPacket == "zero"

Init ==
    /\ active = FALSE
    /\ open = FALSE
    /\ robot = None

\* The gate follows what is known of the robot.
Shift ==
    /\ open' \in BOOLEAN
    /\ UNCHANGED <<active, robot>>

Activate ==
    /\ active' = TRUE
    /\ UNCHANGED <<open, robot>>

Send ==
    /\ active
    /\ open
    /\ robot' \in Packets
    /\ UNCHANGED <<active, open>>

\* Deactivation shuts the gate; an open gate lets the stop packet pass first.
Deactivate ==
    /\ active' = FALSE
    /\ open' = FALSE
    /\ robot' = robot \/ (open /\ robot' = StopPacket)

Next == Shift \/ Activate \/ Send \/ Deactivate

Spec == Init /\ [][Next]_vars
=============================================================================
