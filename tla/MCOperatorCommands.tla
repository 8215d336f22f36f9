------------------------- MODULE MCOperatorCommands -------------------------
(* Instances of OperatorCommands for TLC.                                  *)
EXTENDS OperatorCommands

\* A value inside the limits, one beyond each limit, and one not finite.
TopicLinears == {-3, 1, 3, NonFinite}
TopicYaws == {1, NonFinite}
TopicHeights == {1, 3, 9, NonFinite}

\* Values the topics never bring.
ReceiverLinears == {-1, NonFinite}
ReceiverHeights == {4, NonFinite}

BackwardLimit == -2
=============================================================================
