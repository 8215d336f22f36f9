----------------------- MODULE MCLocomotionController -----------------------
(* Instances of LocomotionController for TLC.                              *)
EXTENDS LocomotionController

\* Duplicate time stamps, nominal cycles and a late cycle.
SafetySteps == {0, 1, 2}

\* Time must pass for anything to be promised eventually.
LivenessSteps == {1, 2}
=============================================================================
