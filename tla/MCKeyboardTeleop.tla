-------------------------- MODULE MCKeyboardTeleop --------------------------
(* Instances of KeyboardTeleop for TLC.                                    *)
EXTENDS KeyboardTeleop
=============================================================================
