---------------------------- MODULE MCRealBridge ----------------------------
(* Instances of RealBridge for TLC.                                        *)
EXTENDS RealBridge
=============================================================================
