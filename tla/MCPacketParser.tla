--------------------------- MODULE MCPacketParser ---------------------------
(* Instances of PacketParser for TLC.                                      *)
EXTENDS PacketParser
=============================================================================
