-------------------------- MODULE MCPolicyPipeline --------------------------
(* Instance of PolicyPipeline for TLC.                                     *)
EXTENDS PolicyPipeline

\* What parameter files may hold, values that have to be clamped or refused too.
AnyDelays == {-1, 0, 1, 3}
AnyWindows == {0, 1, 3}
=============================================================================
