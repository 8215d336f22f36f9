------------------------- MODULE PacketParserProofs -------------------------
(* Proofs about PacketParser: of its inductive invariant, and of the two   *)
(* properties the run PacketParser checks, for every packet and buffer     *)
(* size and every stream.                                                  *)
EXTENDS PacketParser, SequenceTheorems, TLAPS

(* Sequences.                                                              *)

\* What From leaves of a sequence.
LEMMA FromProperties ==
    ASSUME NEW b \in Seq(Bytes), NEW i \in 1 .. Len(b) + 1
    PROVE  /\ From(b, i) \in Seq(Bytes)
           /\ Len(From(b, i)) = Len(b) - i + 1
           /\ \A k \in 1 .. Len(b) - i + 1 : From(b, i)[k] = b[i + k - 1]
  <1>1. \A k \in i .. Len(b) : b[k] \in Bytes
    OBVIOUS
  <1>2. QED
    BY <1>1, SubSeqProperties DEF From

\* The bytes of s that follow its first i are those of an intact packet.
IntactBytes(s, i) ==
    /\ s[i + 1] = Header1
    /\ s[i + 2] = Header2
    /\ s[i + PacketSize] = End
    /\ \A k \in 3 .. PacketSize - 1 : s[i + k] # Bad

\* Valid looks at no byte beyond the packet.
LEMMA ValidIsPointwise ==
    ASSUME NEW s \in Seq(Bytes), NEW i \in Nat, NEW n \in Nat,
           i + PacketSize <= n, n <= Len(s)
    PROVE  Valid(SubSeq(s, i + 1, n)) <=> IntactBytes(s, i)
  <1> DEFINE t == SubSeq(s, i + 1, n)
  <1>1. \A k \in i + 1 .. n : s[k] \in Bytes
    OBVIOUS
  <1>2. \A k \in 1 .. n - i : t[k] = s[i + k]
    <2>1. \A k \in 1 .. n - (i + 1) + 1 : t[k] = s[(i + 1) + k - 1]
      BY <1>1, SubSeqProperties
    <2>2. QED
      BY <2>1
  <1>3. \A k \in 1 .. PacketSize : t[k] = s[i + k]
    BY <1>2, SizeAssumption
  <1>4. /\ t[1] = s[i + 1] /\ t[2] = s[i + 2] /\ t[PacketSize] = s[i + PacketSize]
        /\ \A k \in 3 .. PacketSize - 1 : t[k] = s[i + k]
    BY <1>3, SizeAssumption
  <1>5. QED
    BY <1>4 DEF Valid, IntactBytes

LEMMA IntactAtIsPointwise ==
    ASSUME stream \in Seq(Bytes), NEW i \in Nat, i + PacketSize <= Len(stream)
    PROVE  IntactAt(i) <=> IntactBytes(stream, i)
  BY ValidIsPointwise, SizeAssumption DEF IntactAt

\* A packet found in the buffer is the one at its place in the stream.
LEMMA BufferShowsStream ==
    ASSUME InductiveInvariant, NEW i \in 1 .. Len(buffer),
           Len(From(buffer, i)) >= PacketSize
    PROVE  /\ Valid(From(buffer, i)) <=> IntactAt(offset + i - 1)
           /\ i - 1 + PacketSize <= Len(buffer)
  <1> USE DEF InductiveInvariant, TypeOK, BufferAndDriver
  <1>1. i - 1 + PacketSize <= Len(buffer)
    <2>1. buffer \in Seq(Bytes) /\ i \in 1 .. Len(buffer) + 1
      OBVIOUS
    <2>2. Len(From(buffer, i)) = Len(buffer) - i + 1
      BY <2>1, FromProperties
    <2>3. QED
      BY <2>2, SizeAssumption
  <1>2. Valid(From(buffer, i)) <=> IntactBytes(buffer, i - 1)
    <2>1. buffer \in Seq(Bytes) /\ Len(buffer) \in Nat
      OBVIOUS
    <2>2. PICK j \in Nat : j + 1 = i /\ j = i - 1
      OBVIOUS
    <2>3. Valid(SubSeq(buffer, j + 1, Len(buffer))) <=> IntactBytes(buffer, j)
      <3>1. j + PacketSize <= Len(buffer)
        BY <1>1, <2>2
      <3> HIDE DEF InductiveInvariant
      <3>2. QED
        BY <2>1, <3>1, ValidIsPointwise
    <2>4. QED
      BY <2>2, <2>3, Zenon DEF From
  <1>3. \A k \in 1 .. PacketSize : buffer[(i - 1) + k] = stream[(offset + i - 1) + k]
    <2>1. SUFFICES ASSUME NEW k \in 1 .. PacketSize
                   PROVE  buffer[(i - 1) + k] = stream[(offset + i - 1) + k]
      OBVIOUS
    <2>2. PICK m \in 1 .. Len(buffer) : m = (i - 1) + k
      BY <1>1, SizeAssumption
    <2>3. buffer[m] = stream[offset + m]
      BY Zenon
    <2>4. offset + m = (offset + i - 1) + k
      BY <2>2, SizeAssumption
    <2>5. QED
      BY <2>2, <2>3, <2>4
  <1>4. IntactBytes(buffer, i - 1) <=> IntactBytes(stream, offset + i - 1)
    <2>1. /\ 1 \in 1 .. PacketSize /\ 2 \in 1 .. PacketSize /\ PacketSize \in 1 .. PacketSize
          /\ 3 .. PacketSize - 1 \subseteq 1 .. PacketSize
      BY SizeAssumption
    <2>2. QED
      BY <1>3, <2>1, Zenon DEF IntactBytes
  <1>5. IntactBytes(stream, offset + i - 1) <=> IntactAt(offset + i - 1)
    <2>1. /\ offset + i - 1 \in Nat /\ stream \in Seq(Bytes)
          /\ offset + i - 1 + PacketSize <= Len(stream)
      BY <1>1, SizeAssumption
    <2>2. QED
      BY <2>1, IntactAtIsPointwise
  <1>6. QED
    BY <1>1, <1>2, <1>4, <1>5

-----------------------------------------------------------------------------
(* What the loop's iterations have in common.                              *)

\* Dropping bytes at the front keeps buffer and driver in their place.
LEMMA Dropping ==
    ASSUME InductiveInvariant, NEW i \in 1 .. Len(buffer) + 1,
           buffer' = From(buffer, i), offset' = offset + i - 1,
           stream' = stream, unread' = unread
    PROVE  /\ stream' \in Seq(Bytes) /\ unread' \in Seq(Bytes) /\ buffer' \in Seq(Bytes)
           /\ offset' \in Nat
           /\ offset' + Len(buffer') = offset + Len(buffer)
           /\ Len(stream') = offset' + Len(buffer') + Len(unread')
           /\ \A k \in 1 .. Len(buffer') : buffer'[k] = stream'[offset' + k]
           /\ \A k \in 1 .. Len(unread') : unread'[k] = stream'[offset' + Len(buffer') + k]
  <1>1. /\ stream \in Seq(Bytes) /\ unread \in Seq(Bytes) /\ buffer \in Seq(Bytes)
        /\ offset \in Nat /\ Len(stream) = offset + Len(buffer) + Len(unread)
    BY DEF InductiveInvariant, TypeOK, BufferAndDriver
  <1>2. /\ buffer' \in Seq(Bytes) /\ Len(buffer') = Len(buffer) - i + 1
        /\ \A k \in 1 .. Len(buffer) - i + 1 : buffer'[k] = buffer[i + k - 1]
    BY <1>1, FromProperties
  <1>3. offset' \in Nat /\ offset' + Len(buffer') = offset + Len(buffer)
    BY <1>1, <1>2
  <1>4. \A k \in 1 .. Len(buffer') : buffer'[k] = stream'[offset' + k]
    <2>1. SUFFICES ASSUME NEW k \in 1 .. Len(buffer')
                   PROVE  buffer'[k] = stream[offset' + k]
      OBVIOUS
    <2>2. PICK m \in 1 .. Len(buffer) : m = i + k - 1
      BY <1>1, <1>2
    <2>3. buffer[m] = stream[offset + m]
      BY Zenon DEF InductiveInvariant, BufferAndDriver
    <2>4. offset + m = offset' + k /\ buffer'[k] = buffer[m]
      BY <1>1, <1>2, <2>2
    <2>5. QED
      BY <2>3, <2>4
  <1>5. \A k \in 1 .. Len(unread') : unread'[k] = stream'[offset' + Len(buffer') + k]
    BY <1>3, Zenon DEF InductiveInvariant, BufferAndDriver
  <1>6. QED
    BY <1>1, <1>2, <1>3, <1>4, <1>5

\* No header starts at a byte the search has passed.
LEMMA SearchPassesNoHeader ==
    ASSUME InductiveInvariant, NEW i \in 1 .. Len(buffer), SearchStopsAt(buffer, i),
           NEW k \in offset .. offset + i - 2
    PROVE  GoneForGood(k)
  <1>1. /\ stream \in Seq(Bytes) /\ buffer \in Seq(Bytes) /\ offset \in Nat
        /\ unread \in Seq(Bytes) /\ Len(stream) = offset + Len(buffer) + Len(unread)
    BY DEF InductiveInvariant, TypeOK, BufferAndDriver
  <1>2. PICK j \in 1 .. i - 1 : j = k - offset + 1
    BY <1>1
  <1>3. ~HeaderAt(buffer, j)
    BY DEF SearchStopsAt
  <1>4. j \in 1 .. Len(buffer) /\ j + 1 \in 1 .. Len(buffer) /\ j < Len(buffer)
    BY <1>1
  <1>5. buffer[j] = stream[offset + j] /\ buffer[j + 1] = stream[offset + (j + 1)]
    BY <1>4, Zenon DEF InductiveInvariant, BufferAndDriver
  <1>6. offset + j = k + 1 /\ offset + (j + 1) = (k + 1) + 1
    BY <1>1, <1>2
  <1>7. ~HeaderAt(stream, k + 1)
    BY <1>3, <1>4, <1>5, <1>6 DEF HeaderAt
  <1>8. k + 2 <= offset + Len(buffer)
    BY <1>1, <1>2, <1>4
  <1>9. QED
    BY <1>7, <1>8 DEF GoneForGood

\* On one stream, what is gone for good stays so while more is accepted and
\* more is read.
LEMMA GoneStaysGone ==
    ASSUME InductiveInvariant, NEW i \in Nat, GoneForGood(i), stream' = stream,
           accepted \subseteq accepted',
           offset' + Len(buffer') \in Nat,
           offset + Len(buffer) <= offset' + Len(buffer')
    PROVE  GoneForGood(i)'
  <1>1. offset \in Nat /\ Len(buffer) \in Nat
    BY DEF InductiveInvariant, TypeOK
  <1>2. IntactAt(i)' <=> IntactAt(i)
    BY DEF IntactAt
  <1>3. CASE \E j \in accepted : j <= i /\ i < j + PacketSize
    BY <1>3 DEF GoneForGood
  <1>4. CASE i + 2 <= offset + Len(buffer) /\ ~HeaderAt(stream, i + 1)
    BY <1>1, <1>4 DEF GoneForGood
  <1>5. CASE i + PacketSize <= offset + Len(buffer) /\ ~IntactAt(i)
    BY <1>1, <1>2, <1>5, SizeAssumption DEF GoneForGood
  <1>6. QED
    BY <1>3, <1>4, <1>5 DEF GoneForGood

-----------------------------------------------------------------------------
(* The steps.                                                              *)

LEMMA InitEstablishesInvariant == Init => InductiveInvariant
  <1>1. <<>> \in Seq(Bytes) /\ Len(<<>>) = 0
    BY EmptySeq
  <1>2. QED
    BY <1>1, SizeAssumption
       DEF Init, InductiveInvariant, TypeOK, BufferAndDriver, AcceptedBehind, DroppedForGood

\* Nothing is lost between the driver and the buffer, which has room.
LEMMA ReceiveKeepsInvariant ==
    ASSUME InductiveInvariant, Receive PROVE InductiveInvariant'
  <1>1. /\ stream \in Seq(Bytes) /\ unread \in Seq(Bytes) /\ buffer \in Seq(Bytes)
        /\ offset \in Nat /\ Len(stream) = offset + Len(buffer) + Len(unread)
        /\ Len(buffer) < PacketSize /\ Len(unread) \in Nat /\ Len(buffer) \in Nat
    BY DEF InductiveInvariant, TypeOK, BufferAndDriver, Receive
  <1>2. Room(buffer) = buffer
    BY <1>1, SizeAssumption DEF Room
  <1> DEFINE free  == BufferSize - Len(buffer)
             count == IF Len(unread) <= free THEN Len(unread) ELSE free
             taken == SubSeq(unread, 1, count)
  <1>3. /\ pc' = "parse" /\ stream' = stream /\ accepted' = accepted
        /\ buffer' = buffer \o taken
        /\ offset' = offset + Len(buffer) - Len(buffer)
        /\ unread' = From(unread, count + 1)
    BY <1>2 DEF Receive
  <1>4. count \in Nat /\ count <= Len(unread)
    BY <1>1, SizeAssumption
  <1> HIDE DEF count
  <1>5. /\ taken \in Seq(Bytes) /\ Len(taken) = count
        /\ \A k \in 1 .. count : taken[k] = unread[k]
    <2>1. \A k \in 1 .. count : unread[k] \in Bytes
      BY <1>1, <1>4
    <2>2. QED
      BY <1>4, <2>1, SubSeqProperties
  <1> HIDE DEF taken
  <1>6. /\ buffer' \in Seq(Bytes) /\ Len(buffer') = Len(buffer) + count
        /\ \A k \in 1 .. Len(buffer) : buffer'[k] = buffer[k]
        /\ \A k \in Len(buffer) + 1 .. Len(buffer) + count :
             buffer'[k] = unread[k - Len(buffer)]
    <2>1. /\ buffer \o taken \in Seq(Bytes)
          /\ Len(buffer \o taken) = Len(buffer) + Len(taken)
          /\ \A k \in 1 .. Len(buffer) + Len(taken) :
               (buffer \o taken)[k] = IF k <= Len(buffer) THEN buffer[k]
                                                        ELSE taken[k - Len(buffer)]
      BY <1>1, <1>5, ConcatProperties
    <2>2. count \in Nat
      BY <1>1, <1>4
    <2>3. \A k \in Len(buffer) + 1 .. Len(buffer) + count :
            k - Len(buffer) \in 1 .. count /\ ~(k <= Len(buffer))
      BY <1>1, <2>2
    <2>4. QED
      BY <1>1, <1>3, <1>5, <2>1, <2>2, <2>3
  <1>7. /\ unread' \in Seq(Bytes) /\ Len(unread') = Len(unread) - count
        /\ \A k \in 1 .. Len(unread) - count : unread'[k] = unread[count + k]
    <2>1. /\ count + 1 \in 1 .. Len(unread) + 1
          /\ Len(unread) - (count + 1) + 1 = Len(unread) - count
          /\ \A k \in 1 .. Len(unread) - count : (count + 1) + k - 1 = count + k
      BY <1>1, <1>4
    <2>2. /\ unread' \in Seq(Bytes) /\ Len(unread') = Len(unread) - (count + 1) + 1
          /\ \A k \in 1 .. Len(unread) - (count + 1) + 1 :
               unread'[k] = unread[(count + 1) + k - 1]
      BY <1>1, <1>3, <2>1, FromProperties
    <2>3. QED
      BY <2>1, <2>2
  <1>8. offset' = offset
    BY <1>1, <1>3
  <1>9. TypeOK'
    BY <1>3, <1>6, <1>7, <1>8 DEF InductiveInvariant, TypeOK
  <1>10. BufferAndDriver'
    <2>1. Len(stream') = offset' + Len(buffer') + Len(unread')
      <3>1. /\ Len(buffer') = Len(buffer) + count /\ Len(unread') = Len(unread) - count
            /\ Len(stream') = Len(stream)
        BY <1>3, <1>6, <1>7, Zenon
      <3>2. QED
        BY <1>1, <1>4, <1>8, <3>1
    <2>2. \A k \in 1 .. Len(buffer') : buffer'[k] = stream'[offset' + k]
      <3>1. SUFFICES ASSUME NEW k \in 1 .. Len(buffer') PROVE buffer'[k] = stream[offset + k]
        BY <1>3, <1>8
      <3>2. CASE k \in 1 .. Len(buffer)
        BY <1>6, <3>2, Zenon DEF InductiveInvariant, BufferAndDriver
      <3>3. CASE k \in Len(buffer) + 1 .. Len(buffer) + count
        <4>1. k - Len(buffer) \in 1 .. Len(unread)
          BY <1>1, <1>4, <3>3
        <4>2. unread[k - Len(buffer)] = stream[offset + Len(buffer) + (k - Len(buffer))]
          BY <4>1, Zenon DEF InductiveInvariant, BufferAndDriver
        <4>3. /\ buffer'[k] = unread[k - Len(buffer)]
              /\ offset + Len(buffer) + (k - Len(buffer)) = offset + k
          BY <1>1, <1>6, <3>3
        <4>4. QED
          BY <4>2, <4>3
      <3>4. QED
        BY <1>1, <1>4, <1>6, <3>2, <3>3
    <2>3. \A k \in 1 .. Len(unread') : unread'[k] = stream'[offset' + Len(buffer') + k]
      <3>1. SUFFICES ASSUME NEW k \in 1 .. Len(unread')
                     PROVE  unread'[k] = stream[offset + Len(buffer') + k]
        BY <1>3, <1>8
      <3>2. PICK m \in 1 .. Len(unread) : m = count + k
        BY <1>1, <1>4, <1>7
      <3>3. unread[m] = stream[offset + Len(buffer) + m]
        BY Zenon DEF InductiveInvariant, BufferAndDriver
      <3>4. unread'[k] = unread[m] /\ offset + Len(buffer) + m = offset + Len(buffer') + k
        BY <1>1, <1>4, <1>6, <1>7, <3>2
      <3>5. QED
        BY <3>3, <3>4
    <2>4. QED
      BY <1>3, <2>1, <2>2, <2>3 DEF BufferAndDriver
  <1>11. AcceptedBehind'
    BY <1>3, <1>8 DEF InductiveInvariant, AcceptedBehind, IntactAt, Overlap
  <1>12. DroppedForGood'
    <2>1. SUFFICES ASSUME NEW i \in 0 .. offset' - 1 PROVE GoneForGood(i)'
      BY DEF DroppedForGood
    <2>2. i \in Nat /\ GoneForGood(i)
      BY <1>1, <1>8 DEF InductiveInvariant, DroppedForGood
    <2>3. QED
      BY <1>1, <1>3, <1>4, <1>6, <1>8, <2>2, GoneStaysGone
  <1>13. QED
    BY <1>9, <1>10, <1>11, <1>12 DEF InductiveInvariant

LEMMA LoopEndsKeepsInvariant ==
    ASSUME InductiveInvariant, LoopEnds PROVE InductiveInvariant'
  BY DEF LoopEnds, InductiveInvariant, TypeOK, BufferAndDriver, AcceptedBehind,
         DroppedForGood, GoneForGood, IntactAt, Overlap

LEMMA LoopBreaksKeepsInvariant ==
    ASSUME InductiveInvariant, NEW header \in 1 .. Len(buffer),
           SearchStopsAt(buffer, header), LoopBreaks(header)
    PROVE  InductiveInvariant'
  <1>1. /\ offset \in Nat /\ buffer \in Seq(Bytes) /\ header \in 1 .. Len(buffer) + 1
        /\ pc' = "read" /\ accepted' = accepted /\ accepted \subseteq Nat
        /\ stream' = stream /\ unread' = unread
        /\ buffer' = From(buffer, header) /\ offset' = offset + header - 1
        /\ Len(buffer') < PacketSize
    BY DEF LoopBreaks, InductiveInvariant, TypeOK
  <1>2. /\ stream' \in Seq(Bytes) /\ unread' \in Seq(Bytes) /\ buffer' \in Seq(Bytes)
        /\ offset' \in Nat
        /\ offset' + Len(buffer') = offset + Len(buffer)
        /\ Len(stream') = offset' + Len(buffer') + Len(unread')
        /\ \A k \in 1 .. Len(buffer') : buffer'[k] = stream'[offset' + k]
        /\ \A k \in 1 .. Len(unread') : unread'[k] = stream'[offset' + Len(buffer') + k]
    BY <1>1, Dropping
  <1>3. TypeOK'
    BY <1>1, <1>2 DEF TypeOK
  <1>4. BufferAndDriver'
    BY <1>1, <1>2 DEF BufferAndDriver
  <1>5. AcceptedBehind'
    <2>1. offset <= offset'
      BY <1>1
    <2>2. \A i \in accepted : i + PacketSize <= offset' /\ IntactAt(i)'
      BY <1>1, <1>2, <2>1, SizeAssumption DEF InductiveInvariant, AcceptedBehind, IntactAt
    <2>3. QED
      BY <1>1, <2>2 DEF InductiveInvariant, AcceptedBehind, Overlap
  <1>6. DroppedForGood'
    <2>1. SUFFICES ASSUME NEW i \in 0 .. offset' - 1 PROVE GoneForGood(i)'
      BY DEF DroppedForGood
    <2>2. i \in Nat /\ (i \in offset .. offset + header - 2 \/ i \in 0 .. offset - 1)
      BY <1>1
    <2>3. GoneForGood(i)
      BY <2>2, SearchPassesNoHeader DEF InductiveInvariant, DroppedForGood
    <2>4. QED
      BY <1>1, <1>2, <2>3, GoneStaysGone
  <1>7. QED
    BY <1>3, <1>4, <1>5, <1>6 DEF InductiveInvariant

\* A packet is accepted where an intact one starts, and removed as a whole.
LEMMA AcceptPacketKeepsInvariant ==
    ASSUME InductiveInvariant, NEW header \in 1 .. Len(buffer),
           SearchStopsAt(buffer, header), AcceptPacket(header)
    PROVE  InductiveInvariant'
  <1> DEFINE start == offset + header - 1
  <1>1. /\ IntactAt(start) /\ header - 1 + PacketSize <= Len(buffer)
    BY BufferShowsStream DEF AcceptPacket
  <1>2. /\ offset \in Nat /\ Len(buffer) \in Nat /\ header + PacketSize \in 1 .. Len(buffer) + 1
        /\ start \in Nat /\ offset' = start + PacketSize
        /\ offset' = offset + (header + PacketSize) - 1
    BY <1>1, SizeAssumption DEF AcceptPacket, InductiveInvariant, TypeOK
  <1>3. /\ pc = "parse" /\ pc' = pc /\ stream' = stream /\ unread' = unread
        /\ accepted' = accepted \cup {start} /\ accepted \subseteq Nat
        /\ buffer' = From(buffer, header + PacketSize)
    BY DEF AcceptPacket, InductiveInvariant, TypeOK
  <1> HIDE DEF start
  <1>4. /\ stream' \in Seq(Bytes) /\ unread' \in Seq(Bytes) /\ buffer' \in Seq(Bytes)
        /\ offset' \in Nat
        /\ offset' + Len(buffer') = offset + Len(buffer)
        /\ Len(stream') = offset' + Len(buffer') + Len(unread')
        /\ \A k \in 1 .. Len(buffer') : buffer'[k] = stream'[offset' + k]
        /\ \A k \in 1 .. Len(unread') : unread'[k] = stream'[offset' + Len(buffer') + k]
    BY <1>2, <1>3, Dropping
  <1>5. TypeOK'
    BY <1>2, <1>3, <1>4 DEF TypeOK
  <1>6. BufferAndDriver'
    BY <1>3, <1>4 DEF BufferAndDriver
  <1>7. AcceptedBehind'
    <2>1. \A i : IntactAt(i)' <=> IntactAt(i)
      BY <1>3 DEF IntactAt
    <2>2. \A i \in accepted : i \in Nat /\ i + PacketSize <= offset /\ IntactAt(i)
      BY <1>3 DEF InductiveInvariant, AcceptedBehind
    <2>3. offset <= start
      BY <1>2 DEF start
    <2>4. \A i \in accepted : i + PacketSize <= start /\ ~Overlap(i, start) /\ ~Overlap(start, i)
      BY <1>2, <2>2, <2>3, SizeAssumption DEF Overlap
    <2>5. \A i \in accepted' : i + PacketSize <= offset' /\ IntactAt(i)'
      <3>1. \A i \in accepted : i + PacketSize <= offset'
        BY <1>2, <2>2, <2>4, SizeAssumption
      <3>2. QED
        BY <1>1, <1>2, <1>3, <2>1, <2>2, <3>1 DEF start
    <2>6. \A i, j \in accepted' : i # j => ~Overlap(i, j)
      BY <1>3, <2>4, Zenon DEF InductiveInvariant, AcceptedBehind
    <2>7. QED
      BY <2>5, <2>6 DEF AcceptedBehind, Overlap
  <1>8. DroppedForGood'
    <2>1. SUFFICES ASSUME NEW i \in 0 .. offset' - 1 PROVE GoneForGood(i)'
      BY DEF DroppedForGood
    <2>2. CASE start <= i
      <3>1. i < start + PacketSize /\ start \in accepted'
        BY <1>2, <1>3, SizeAssumption
      <3>2. \E j \in accepted' : j <= i /\ i < j + PacketSize
        BY <2>2, <3>1
      <3>3. QED
        BY <3>2 DEF GoneForGood
    <2>3. CASE i < start
      <3>1. i \in Nat /\ (i \in offset .. offset + header - 2 \/ i \in 0 .. offset - 1)
        BY <1>2, <2>3 DEF start
      <3>2. GoneForGood(i)
        BY <3>1, SearchPassesNoHeader DEF InductiveInvariant, DroppedForGood
      <3>3. /\ offset' + Len(buffer') \in Nat
            /\ offset + Len(buffer) <= offset' + Len(buffer')
        <4>1. offset \in Nat /\ Len(buffer) \in Nat
          BY <1>2
        <4>2. offset' + Len(buffer') = offset + Len(buffer)
          BY <1>4
        <4>3. QED
          BY <4>1, <4>2
      <3>4. i \in Nat /\ accepted \subseteq accepted'
        BY <1>3, <3>1
      <3>5. QED
        BY <1>3, <3>2, <3>3, <3>4, GoneStaysGone
    <2>4. QED
      BY <1>2, <2>2, <2>3
  <1>9. QED
    BY <1>5, <1>6, <1>7, <1>8 DEF InductiveInvariant

\* Where a byte is dropped, a whole packet could be read and was not intact.
LEMMA RejectPacketKeepsInvariant ==
    ASSUME InductiveInvariant, NEW header \in 1 .. Len(buffer),
           SearchStopsAt(buffer, header), RejectPacket(header)
    PROVE  InductiveInvariant'
  <1> DEFINE start == offset + header - 1
  <1>1. /\ ~IntactAt(start) /\ header - 1 + PacketSize <= Len(buffer)
    BY BufferShowsStream DEF RejectPacket
  <1>2. /\ offset \in Nat /\ Len(buffer) \in Nat /\ header + 1 \in 1 .. Len(buffer) + 1
        /\ start \in Nat /\ offset' = start + 1 /\ offset' = offset + (header + 1) - 1
    BY <1>1, SizeAssumption DEF RejectPacket, InductiveInvariant, TypeOK
  <1>3. /\ pc = "parse" /\ pc' = pc /\ stream' = stream /\ unread' = unread
        /\ accepted' = accepted /\ accepted \subseteq Nat
        /\ buffer' = From(buffer, header + 1)
    BY DEF RejectPacket, InductiveInvariant, TypeOK
  <1> HIDE DEF start
  <1>4. /\ stream' \in Seq(Bytes) /\ unread' \in Seq(Bytes) /\ buffer' \in Seq(Bytes)
        /\ offset' \in Nat
        /\ offset' + Len(buffer') = offset + Len(buffer)
        /\ Len(stream') = offset' + Len(buffer') + Len(unread')
        /\ \A k \in 1 .. Len(buffer') : buffer'[k] = stream'[offset' + k]
        /\ \A k \in 1 .. Len(unread') : unread'[k] = stream'[offset' + Len(buffer') + k]
    BY <1>2, <1>3, Dropping
  <1>5. TypeOK'
    BY <1>2, <1>3, <1>4 DEF TypeOK
  <1>6. BufferAndDriver'
    BY <1>3, <1>4 DEF BufferAndDriver
  <1>7. AcceptedBehind'
    <2>1. offset <= offset'
      BY <1>2
    <2>2. \A i \in accepted : i + PacketSize <= offset' /\ IntactAt(i)'
      BY <1>2, <1>3, <2>1, SizeAssumption DEF InductiveInvariant, AcceptedBehind, IntactAt
    <2>3. QED
      BY <1>3, <2>2 DEF InductiveInvariant, AcceptedBehind, Overlap
  <1>8. DroppedForGood'
    <2>1. SUFFICES ASSUME NEW i \in 0 .. offset' - 1 PROVE GoneForGood(i)'
      BY DEF DroppedForGood
    <2>2. i \in Nat
      OBVIOUS
    <2>3. GoneForGood(i)
      <3>1. CASE i = start
        <4>1. i + PacketSize <= offset + Len(buffer)
          BY <1>1, <1>2, <3>1, SizeAssumption DEF start
        <4>2. QED
          BY <1>1, <3>1, <4>1 DEF GoneForGood
      <3>2. CASE i # start
        <4>1. i \in offset .. offset + header - 2 \/ i \in 0 .. offset - 1
          BY <1>2, <3>2 DEF start
        <4>2. QED
          BY <4>1, SearchPassesNoHeader DEF InductiveInvariant, DroppedForGood
      <3>3. QED
        BY <3>1, <3>2
    <2>4. QED
      BY <1>2, <1>3, <1>4, <2>2, <2>3, GoneStaysGone
  <1>9. QED
    BY <1>5, <1>6, <1>7, <1>8 DEF InductiveInvariant

\* What has been decided about a byte does not depend on later bytes.
LEMMA ArriveKeepsInvariant ==
    ASSUME InductiveInvariant, NEW byte \in Bytes, Arrive(byte)
    PROVE  InductiveInvariant'
  <1>1. /\ stream \in Seq(Bytes) /\ unread \in Seq(Bytes) /\ buffer \in Seq(Bytes)
        /\ offset \in Nat /\ accepted \subseteq Nat
        /\ Len(stream) = offset + Len(buffer) + Len(unread)
        /\ Len(buffer) \in Nat /\ Len(unread) \in Nat
    BY DEF InductiveInvariant, TypeOK, BufferAndDriver
  <1>2. /\ pc' = pc /\ buffer' = buffer /\ offset' = offset /\ accepted' = accepted
    BY DEF Arrive
  <1>3. /\ stream' \in Seq(Bytes) /\ Len(stream') = Len(stream) + 1
        /\ \A k \in 1 .. Len(stream) : stream'[k] = stream[k]
        /\ stream'[Len(stream) + 1] = byte
    BY <1>1, AppendProperties DEF Arrive
  <1>4. /\ unread' \in Seq(Bytes) /\ Len(unread') = Len(unread) + 1
        /\ \A k \in 1 .. Len(unread) : unread'[k] = unread[k]
        /\ unread'[Len(unread) + 1] = byte
    BY <1>1, AppendProperties DEF Arrive
  <1>5. TypeOK'
    BY <1>2, <1>3, <1>4 DEF InductiveInvariant, TypeOK
  <1>6. BufferAndDriver'
    <2>1. Len(stream') = offset + Len(buffer) + Len(unread')
      BY <1>1, <1>3, <1>4
    <2>2. \A k \in 1 .. Len(buffer) : buffer[k] = stream'[offset + k]
      <3>1. SUFFICES ASSUME NEW k \in 1 .. Len(buffer) PROVE buffer[k] = stream'[offset + k]
        OBVIOUS
      <3>2. buffer[k] = stream[offset + k]
        BY Zenon DEF InductiveInvariant, BufferAndDriver
      <3>3. offset + k \in 1 .. Len(stream)
        BY <1>1
      <3>4. QED
        BY <1>3, <3>2, <3>3
    <2>3. \A k \in 1 .. Len(unread') : unread'[k] = stream'[offset + Len(buffer) + k]
      <3>1. SUFFICES ASSUME NEW k \in 1 .. Len(unread) + 1
                     PROVE  unread'[k] = stream'[offset + Len(buffer) + k]
        BY <1>4
      <3>2. CASE k \in 1 .. Len(unread)
        <4>1. unread[k] = stream[offset + Len(buffer) + k]
          BY <3>2, Zenon DEF InductiveInvariant, BufferAndDriver
        <4>2. offset + Len(buffer) + k \in 1 .. Len(stream)
          BY <1>1, <3>2
        <4>3. QED
          BY <1>3, <1>4, <3>2, <4>1, <4>2
      <3>3. CASE k = Len(unread) + 1
        BY <1>1, <1>3, <1>4, <3>3
      <3>4. QED
        BY <1>1, <3>2, <3>3
    <2>4. QED
      BY <1>2, <2>1, <2>2, <2>3 DEF InductiveInvariant, BufferAndDriver
  <1>7. ASSUME NEW i \in Nat, i + PacketSize <= Len(stream)
        PROVE  IntactAt(i)' <=> IntactAt(i)
    <2>1. IntactAt(i) <=> IntactBytes(stream, i)
      BY <1>1, <1>7, IntactAtIsPointwise
    <2>2. IntactAt(i)' <=> IntactBytes(stream', i)
      <3>1. i + PacketSize \in Nat /\ i + PacketSize <= Len(stream')
        BY <1>1, <1>3, <1>7, SizeAssumption
      <3>2. QED
        BY <1>3, <3>1, ValidIsPointwise, SizeAssumption DEF IntactAt
    <2>3. \A k \in 1 .. PacketSize : stream'[i + k] = stream[i + k]
      BY <1>1, <1>3, <1>7, SizeAssumption
    <2>4. /\ 1 \in 1 .. PacketSize /\ 2 \in 1 .. PacketSize /\ PacketSize \in 1 .. PacketSize
          /\ 3 .. PacketSize - 1 \subseteq 1 .. PacketSize
      BY SizeAssumption
    <2>5. IntactBytes(stream', i) <=> IntactBytes(stream, i)
      BY <2>3, <2>4, Zenon DEF IntactBytes
    <2>6. QED
      BY <2>1, <2>2, <2>5
  <1>8. AcceptedBehind'
    <2>1. \A i \in accepted : i + PacketSize <= offset /\ IntactAt(i)'
      <3>1. \A i \in accepted : i \in Nat /\ i + PacketSize <= offset /\ IntactAt(i)
        BY <1>1 DEF InductiveInvariant, AcceptedBehind
      <3>2. \A i \in accepted : i + PacketSize <= Len(stream)
        BY <1>1, <3>1, SizeAssumption
      <3>3. QED
        BY <1>7, <3>1, <3>2
    <2>2. QED
      BY <1>2, <2>1 DEF InductiveInvariant, AcceptedBehind, Overlap
  <1>9. DroppedForGood'
    <2>1. SUFFICES ASSUME NEW i \in 0 .. offset - 1 PROVE GoneForGood(i)'
      BY <1>2 DEF DroppedForGood
    <2>2. i \in Nat /\ GoneForGood(i)
      BY <1>1 DEF InductiveInvariant, DroppedForGood
    <2>3. CASE \E j \in accepted : j <= i /\ i < j + PacketSize
      BY <1>2, <2>3 DEF GoneForGood
    <2>4. CASE i + 2 <= offset + Len(buffer) /\ ~HeaderAt(stream, i + 1)
      <3>1. /\ i + 1 \in 1 .. Len(stream) /\ (i + 1) + 1 \in 1 .. Len(stream)
            /\ i + 1 < Len(stream) /\ i + 1 < Len(stream')
        BY <1>1, <1>3, <2>2, <2>4
      <3>2. stream'[i + 1] = stream[i + 1] /\ stream'[(i + 1) + 1] = stream[(i + 1) + 1]
        BY <1>3, <3>1
      <3>3. ~HeaderAt(stream', i + 1)
        BY <2>4, <3>1, <3>2 DEF HeaderAt
      <3>4. QED
        BY <1>2, <2>4, <3>3 DEF GoneForGood
    <2>5. CASE i + PacketSize <= offset + Len(buffer) /\ ~IntactAt(i)
      <3>1. i + PacketSize <= Len(stream)
        BY <1>1, <2>2, <2>5, SizeAssumption
      <3>2. QED
        BY <1>2, <1>7, <2>2, <2>5, <3>1 DEF GoneForGood
    <2>6. QED
      BY <2>2, <2>3, <2>4, <2>5 DEF GoneForGood
  <1>10. QED
    BY <1>5, <1>6, <1>8, <1>9 DEF InductiveInvariant

LEMMA ReconnectKeepsInvariant ==
    ASSUME InductiveInvariant, Reconnect PROVE InductiveInvariant'
  <1>1. <<>> \in Seq(Bytes) /\ Len(<<>>) = 0
    BY EmptySeq
  <1>2. QED
    BY <1>1, SizeAssumption
       DEF Reconnect, InductiveInvariant, TypeOK, BufferAndDriver, AcceptedBehind,
           DroppedForGood

LEMMA StepKeepsInvariant ==
    ASSUME InductiveInvariant, [Next]_vars PROVE InductiveInvariant'
  <1>1. CASE Receive
    BY <1>1, ReceiveKeepsInvariant
  <1>2. CASE LoopEnds
    BY <1>2, LoopEndsKeepsInvariant
  <1>3. ASSUME NEW header \in 1 .. Len(buffer), SearchStopsAt(buffer, header), Parse(header)
        PROVE  InductiveInvariant'
    BY <1>3, LoopBreaksKeepsInvariant, AcceptPacketKeepsInvariant,
       RejectPacketKeepsInvariant DEF Parse
  <1>4. ASSUME NEW byte \in Bytes, Arrive(byte) PROVE InductiveInvariant'
    BY <1>4, ArriveKeepsInvariant
  <1>5. CASE Reconnect
    BY <1>5, ReconnectKeepsInvariant
  <1>6. CASE UNCHANGED vars
    BY <1>6 DEF vars, InductiveInvariant, TypeOK, BufferAndDriver, AcceptedBehind,
                DroppedForGood, GoneForGood, IntactAt, Overlap
  <1>7. QED
    BY <1>1, <1>2, <1>3, <1>4, <1>5, <1>6 DEF Next

-----------------------------------------------------------------------------
(* The theorems.                                                           *)

\* receive_packets: buffer and driver always hold the end of the stream in
\* order, accepted packets are intact and lie behind the buffer without
\* overlapping, and every byte that left the buffer left it for good reason.
THEOREM InvariantHolds == Spec => []InductiveInvariant
  BY InitEstablishesInvariant, StepKeepsInvariant, PTL DEF Spec

\* receive_packets: the buffer is exactly what was read and not parsed, and
\* is short of a packet whenever the function has returned.
THEOREM BufferHoldsRemainder == Spec => []BufferIsRemainder
  <1>1. InductiveInvariant => BufferIsRemainder
    <2> SUFFICES ASSUME InductiveInvariant PROVE BufferIsRemainder
      OBVIOUS
    <2> DEFINE rest == SubSeq(stream, offset + 1, Read)
    <2>1. /\ stream \in Seq(Bytes) /\ buffer \in Seq(Bytes) /\ offset \in Nat
          /\ Len(unread) \in Nat /\ Len(buffer) \in Nat
          /\ Len(stream) = offset + Len(buffer) + Len(unread)
      BY DEF InductiveInvariant, TypeOK, BufferAndDriver
    <2>2. Read = offset + Len(buffer)
      BY <2>1 DEF Read
    <2>3. \A k \in offset + 1 .. Read : stream[k] \in Bytes
      BY <2>1, <2>2
    <2>4. /\ rest \in Seq(Bytes) /\ Len(rest) = Len(buffer)
          /\ \A k \in 1 .. Len(buffer) : rest[k] = stream[offset + 1 + k - 1]
      <3>1. /\ offset + 1 \in Int /\ Read \in Int /\ Read - (offset + 1) + 1 = Len(buffer)
            /\ (IF offset + 1 <= Read THEN Read - (offset + 1) + 1 ELSE 0) = Len(buffer)
        BY <2>1, <2>2
      <3>2. /\ rest \in Seq(Bytes)
            /\ Len(rest) = IF offset + 1 <= Read THEN Read - (offset + 1) + 1 ELSE 0
            /\ \A k \in 1 .. Read - (offset + 1) + 1 : rest[k] = stream[(offset + 1) + k - 1]
        BY <2>3, <3>1, SubSeqProperties
      <3>3. QED
        BY <3>1, <3>2
    <2> HIDE DEF rest
    <2>5. \A k \in 1 .. Len(buffer) : offset + 1 + k - 1 = offset + k
      BY <2>1
    <2>6. \A k \in 1 .. Len(buffer) : buffer[k] = stream[offset + k]
      BY Zenon DEF InductiveInvariant, BufferAndDriver
    <2>7. buffer = rest
      BY <2>1, <2>4, <2>5, <2>6, SeqEqual
    <2>8. QED
      BY <2>7 DEF rest, BufferIsRemainder, InductiveInvariant, BufferAndDriver
  <1>2. QED
    BY <1>1, InvariantHolds, PTL

\* receive_packets: noise, false headers and reads that cut packets in two
\* never make it accept what is not a packet, use a byte twice, or miss an
\* intact packet that does not overlap an earlier one.
THEOREM AcceptsIntactPackets == Spec => []IntactPacketsAccepted
  <1>1. InductiveInvariant => IntactPacketsAccepted
    <2> SUFFICES ASSUME InductiveInvariant PROVE IntactPacketsAccepted
      OBVIOUS
    <2>1. /\ stream \in Seq(Bytes) /\ offset \in Nat /\ accepted \subseteq Nat
          /\ Len(unread) \in Nat /\ Len(buffer) \in Nat
          /\ Len(stream) = offset + Len(buffer) + Len(unread)
      BY DEF InductiveInvariant, TypeOK, BufferAndDriver
    <2>2. Read = offset + Len(buffer)
      BY <2>1 DEF Read
    <2>3. accepted \subseteq Packets
      <3>1. SUFFICES ASSUME NEW i \in accepted
                     PROVE  i \in 0 .. Read - PacketSize /\ IntactAt(i)
        BY DEF Packets
      <3>2. i \in Nat /\ i + PacketSize <= offset /\ IntactAt(i)
        BY <2>1 DEF InductiveInvariant, AcceptedBehind
      <3>3. QED
        BY <2>1, <2>2, <3>2, SizeAssumption
    <2>4. \A i, j \in accepted : i # j => ~Overlap(i, j)
      BY DEF InductiveInvariant, AcceptedBehind
    <2>5. ASSUME pc = "read", NEW i \in Packets \ accepted
          PROVE  \E j \in accepted : j < i /\ Overlap(i, j)
      <3>1. i \in 0 .. Read - PacketSize /\ IntactAt(i)
        BY DEF Packets
      <3>2. Len(buffer) < PacketSize
        BY <2>5 DEF InductiveInvariant, BufferAndDriver
      <3>3. i \in 0 .. offset - 1 /\ i + PacketSize <= Len(stream)
        BY <2>1, <2>2, <3>1, <3>2, SizeAssumption
      <3>4. GoneForGood(i)
        BY <3>3 DEF InductiveInvariant, DroppedForGood
      <3>5. HeaderAt(stream, i + 1)
        <4>1. IntactBytes(stream, i)
          BY <2>1, <3>1, <3>3, IntactAtIsPointwise
        <4>2. i + 1 < Len(stream) /\ (i + 1) + 1 = i + 2
          BY <2>1, <3>3, SizeAssumption
        <4>3. QED
          BY <4>1, <4>2 DEF IntactBytes, HeaderAt
      <3>6. PICK j \in accepted : j <= i /\ i < j + PacketSize
        BY <3>1, <3>4, <3>5 DEF GoneForGood
      <3>7. j \in Nat /\ j # i
        BY <2>1
      <3>8. j < i /\ Overlap(i, j)
        BY <3>3, <3>6, <3>7, SizeAssumption DEF Overlap
      <3>9. QED
        BY <3>8
    <2>6. QED
      BY <2>3, <2>4, <2>5 DEF IntactPacketsAccepted
  <1>2. QED
    BY <1>1, InvariantHolds, PTL
=============================================================================
