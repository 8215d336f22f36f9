---------------------------- MODULE PacketParser ----------------------------
(***************************************************************************)
(* RealBridge::receive_packets at the level of bytes: a receive buffer     *)
(* that is refilled by ::read in whatever pieces the driver has, searched  *)
(* for a packet header, and shortened by a packet or, after a false        *)
(* header, by one byte.                                                    *)
(*                                                                         *)
(* A packet is a header of two bytes, payload, and an end marker.  The     *)
(* payload and CRC checks are abstracted to the absence of a Bad byte.     *)
(*                                                                         *)
(* A read and every iteration of the parsing loop are steps of their own,  *)
(* between which the driver may receive; the connection is closed only     *)
(* between two calls of receive_packets.                                   *)
(***************************************************************************)
EXTENDS Integers, Sequences

CONSTANTS
    Header1, Header2, End,  \* marker bytes; as payload they are legal
    Bad,                    \* a byte that makes the CRC check fail
    PacketSize,             \* sizeof(RealMsgState)
    BufferSize,             \* receive_buffer_.size()
    StreamLength            \* bound: bytes sent on one connection

ASSUME SizeAssumption ==
    /\ PacketSize \in Nat /\ BufferSize \in Nat
    /\ 3 <= PacketSize /\ PacketSize <= BufferSize
ASSUME BoundAssumption == StreamLength \in Nat

VARIABLES
    pc,        \* "read": before ::read; "parse": at the head of the loop
    stream,    \* history: every byte sent on this connection
    unread,    \* bytes in the serial driver
    buffer,    \* receive_buffer_[0 .. receive_size_)
    offset,    \* history: how many bytes have left the buffer at its front
    accepted   \* history: where in the stream the accepted packets start

vars == <<pc, stream, unread, buffer, offset, accepted>>

Bytes == {Header1, Header2, End, Bad}

TypeOK ==
    /\ pc \in {"read", "parse"}
    /\ stream \in Seq(Bytes) /\ unread \in Seq(Bytes) /\ buffer \in Seq(Bytes)
    /\ offset \in Nat
    /\ accepted \subseteq Nat

Init ==
    /\ pc = "read"
    /\ stream = <<>>
    /\ unread = <<>>
    /\ buffer = <<>>
    /\ offset = 0
    /\ accepted = {}

\* packet_markers_valid, packet_payload_finite and the CRC comparison.
Valid(packet) ==
    /\ packet[1] = Header1
    /\ packet[2] = Header2
    /\ packet[PacketSize] = End
    /\ \A i \in 3 .. PacketSize - 1 : packet[i] # Bad

From(b, i) == SubSeq(b, i, Len(b))

\* Mutant: a buffer without room for a whole packet is emptied.
RoomForPacket(b) == IF BufferSize - Len(b) < PacketSize THEN <<>> ELSE b

\* A full buffer is emptied before reading.
Room(b) == IF Len(b) = BufferSize THEN <<>> ELSE b

\* receive_packets up to the loop: ::read gives what the driver holds and
\* the buffer has room for, which may be nothing.
Receive ==
    /\ pc = "read"
    /\ pc' = "parse"
    /\ LET kept  == Room(buffer)
           free  == BufferSize - Len(kept)
           count == IF Len(unread) <= free THEN Len(unread) ELSE free
       IN /\ buffer' = kept \o SubSeq(unread, 1, count)
          /\ offset' = offset + Len(buffer) - Len(kept)
          /\ unread' = From(unread, count + 1)
    /\ UNCHANGED <<stream, accepted>>

HeaderAt(b, i) == i < Len(b) /\ b[i] = Header1 /\ b[i + 1] = Header2

\* The search stops at the first header in b, or at b's last byte, which may
\* be half of a header.
SearchStopsAt(b, i) ==
    /\ i \in 1 .. Len(b)
    /\ i = Len(b) \/ HeaderAt(b, i)
    /\ \A j \in 1 .. i - 1 : ~HeaderAt(b, j)

\* The loop's condition fails.
LoopEnds ==
    /\ pc = "parse"
    /\ Len(buffer) < PacketSize
    /\ pc' = "read"
    /\ UNCHANGED <<stream, unread, buffer, offset, accepted>>

\* The loop's break: what follows the header found is not a whole packet yet.
LoopBreaks(header) ==
    /\ pc = "parse"
    /\ Len(buffer) >= PacketSize
    /\ Len(From(buffer, header)) < PacketSize
    /\ pc' = "read"
    /\ buffer' = From(buffer, header)
    /\ offset' = offset + header - 1
    /\ UNCHANGED <<stream, unread, accepted>>

\* An iteration that finds an intact packet.
AcceptPacket(header) ==
    /\ pc = "parse"
    /\ Len(From(buffer, header)) >= PacketSize
    /\ Valid(From(buffer, header))
    /\ buffer' = From(buffer, header + PacketSize)
    /\ offset' = offset + header - 1 + PacketSize
    /\ accepted' = accepted \cup {offset + header - 1}
    /\ UNCHANGED <<pc, stream, unread>>

\* An iteration that finds a header with no intact packet behind it: one byte
\* is dropped and the search goes on.
RejectPacket(header) ==
    /\ pc = "parse"
    /\ Len(From(buffer, header)) >= PacketSize
    /\ ~Valid(From(buffer, header))
    /\ buffer' = From(buffer, header + 1)
    /\ offset' = offset + header
    /\ UNCHANGED <<pc, stream, unread, accepted>>

\* The H7 board, or line noise, brings the next byte.
Arrive(byte) ==
    /\ Len(stream) < StreamLength
    /\ stream' = Append(stream, byte)
    /\ unread' = Append(unread, byte)
    /\ UNCHANGED <<pc, buffer, offset, accepted>>

\* Mutant: the bytes of the old connection stay in the buffer.
ReconnectKeepingBuffer ==
    /\ pc = "read"
    /\ stream' = <<>>
    /\ unread' = <<>>
    /\ offset' = 0
    /\ accepted' = {}
    /\ UNCHANGED <<pc, buffer>>

\* close_connection, then a new connection on a flushed port.
Reconnect ==
    /\ pc = "read"
    /\ stream' = <<>>
    /\ unread' = <<>>
    /\ buffer' = <<>>
    /\ offset' = 0
    /\ accepted' = {}
    /\ UNCHANGED pc

Parse(header) == LoopBreaks(header) \/ AcceptPacket(header) \/ RejectPacket(header)

Next ==
    \/ Receive
    \/ LoopEnds
    \/ \E header \in 1 .. Len(buffer) : SearchStopsAt(buffer, header) /\ Parse(header)
    \/ \E byte \in Bytes : Arrive(byte)
    \/ Reconnect

Spec == Init /\ [][Next]_vars
-----------------------------------------------------------------------------
(* Properties.                                                             *)

Read == Len(stream) - Len(unread)
IntactAt(i) == Valid(SubSeq(stream, i + 1, i + PacketSize))
Packets == {i \in 0 .. Read - PacketSize : IntactAt(i)}
Overlap(i, j) == i < j + PacketSize /\ j < i + PacketSize

\* However the stream was cut into reads and whatever noise it holds, the
\* packets accepted are intact packets of this connection, no byte is used
\* for two of them, and when receive_packets returns, an intact packet that
\* has been read completely is missed only if it overlaps an accepted one
\* that starts before it.
IntactPacketsAccepted ==
    /\ accepted \subseteq Packets
    /\ \A i, j \in accepted : i # j => ~Overlap(i, j)
    /\ pc = "read" =>
         \A i \in Packets \ accepted : \E j \in accepted : j < i /\ Overlap(i, j)

\* The buffer holds the unparsed end of what was read, and receive_packets
\* leaves less than a packet in it, so it never fills up and is never emptied
\* with bytes in it.
BufferIsRemainder ==
    /\ buffer = SubSeq(stream, offset + 1, Read)
    /\ pc = "read" => Len(buffer) < PacketSize
-----------------------------------------------------------------------------
(* The inductive invariant behind both.                                    *)

\* Buffer and driver hold, in order, the end of the stream.
BufferAndDriver ==
    /\ Len(stream) = offset + Len(buffer) + Len(unread)
    /\ \A k \in 1 .. Len(buffer) : buffer[k] = stream[offset + k]
    /\ \A k \in 1 .. Len(unread) : unread[k] = stream[offset + Len(buffer) + k]
    /\ pc = "read" => Len(buffer) < PacketSize

\* What has been accepted lies behind the buffer.
AcceptedBehind ==
    /\ \A i \in accepted : i + PacketSize <= offset /\ IntactAt(i)
    /\ \A i, j \in accepted : i # j => ~Overlap(i, j)

\* The byte after the first i has left the buffer for a reason no later byte
\* can change: it is part of an accepted packet, no header starts there, or
\* the packet that starts there has been read completely and is not intact.
GoneForGood(i) ==
    \/ \E j \in accepted : j <= i /\ i < j + PacketSize
    \/ i + 2 <= offset + Len(buffer) /\ ~HeaderAt(stream, i + 1)
    \/ i + PacketSize <= offset + Len(buffer) /\ ~IntactAt(i)

DroppedForGood == \A i \in 0 .. offset - 1 : GoneForGood(i)

\* Inductive: both properties above follow from it.
InductiveInvariant == TypeOK /\ BufferAndDriver /\ AcceptedBehind /\ DroppedForGood
=============================================================================
