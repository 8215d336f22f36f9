----------------------------- MODULE MCSimLoop -----------------------------
(* Instance of SimLoop for TLC.                                            *)
EXTENDS SimLoop
=============================================================================
