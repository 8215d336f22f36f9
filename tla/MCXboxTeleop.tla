---------------------------- MODULE MCXboxTeleop ----------------------------
(* Instances of XboxTeleop for TLC.                                        *)
EXTENDS XboxTeleop

\* Forward is negative on this gamepad's left stick.
Reversed == -1

\* A stick value in the deadzone, one beyond the axis, either way.
Sticks == {-3, 1}

\* A trigger at rest and one beyond its range.
Triggers == {0, 3}

\* A duplicate time stamp and a late callback.
Times == {0, 3}
=============================================================================
