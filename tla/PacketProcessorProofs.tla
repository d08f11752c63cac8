----------------------- MODULE PacketProcessorProofs -----------------------
(***************************************************************************)
(* Proofs about PacketProcessor, for buffers and streams of any size and   *)
(* any packets: the positions never leave the buffer, a packet that        *)
(* reaches an empty buffer in one piece is processed, and until bytes are  *)
(* lost or the buffer overruns, every byte sent is processed or waits at   *)
(* its place.                                                              *)
(***************************************************************************)
EXTENDS PacketProcessor, SequenceTheorems, TLAPS

\* A buffer with positions in it.
WellFormed(b) ==
  /\ b.buffer \in [0..RxBufferSize - 1 -> Byte]
  /\ b.last \in 0..RxBufferSize
  /\ b.start \in 0..b.last

-----------------------------------------------------------------------------
\* The steps of a round keep the positions in the buffer.

\* An empty buffer starts again at 0; the room behind its bytes is never negative.
LEMMA RewoundWellFormed ==
  ASSUME TypeOK
  PROVE  WellFormed(Rewound) /\ Room \in 0..RxBufferSize
BY SizeAssumption DEF TypeOK, WellFormed, Rewound, Room, At, Drained

\* StreamBuffer::receive fills at most the room that is left, behind the bytes
\* that are there, and takes no more than the stream holds.
LEMMA ReceivedWellFormed ==
  ASSUME TypeOK, NEW b, WellFormed(b), b.last = Rewound.last
  PROVE  /\ WellFormed(Received(b))
         /\ Received(b).start = b.start
         /\ Received(b).last \in b.last..(b.last + Len(rxStream))
<1> DEFINE n == IF Len(rxStream) < Room THEN Len(rxStream) ELSE Room
<1>1. /\ n \in 0..Len(rxStream) /\ b.last + n \in b.last..RxBufferSize
      /\ Len(rxStream) \in Nat
  <2>1. Len(rxStream) \in Nat
    BY DEF TypeOK
  <2>2. b.last \in 0..RxBufferSize /\ RxBufferSize \in Nat /\ Room = RxBufferSize - b.last
    BY SizeAssumption DEF WellFormed, Room
  <2> QED
    BY <2>1, <2>2
<1>2. \A i \in b.last..(b.last + n - 1) : rxStream[i - b.last + 1] \in Byte
  <2> HIDE DEF n
  <2> TAKE i \in b.last..(b.last + n - 1)
  <2>1. i - b.last + 1 \in 1..Len(rxStream)
    BY <1>1 DEF WellFormed
  <2> QED
    BY <2>1, ElementOfSeq DEF TypeOK
<1>3. DOMAIN b.buffer = 0..RxBufferSize - 1 /\ \A i \in DOMAIN b.buffer : b.buffer[i] \in Byte
  BY DEF WellFormed
<1>4. Received(b).buffer \in [0..RxBufferSize - 1 -> Byte]
  BY <1>2, <1>3 DEF Received, At
<1>5. Received(b).start = b.start /\ Received(b).last = b.last + n
  BY DEF Received, At
<1> HIDE DEF n
<1> QED
  BY <1>1, <1>4, <1>5, SizeAssumption DEF WellFormed

\* The shift of a full buffer copies bytes of the buffer only.
LEMMA ShiftedWellFormed ==
  ASSUME NEW b, WellFormed(b)
  PROVE  WellFormed(Shifted(b))
<1>1. CASE MustShift(b)
  <2>1. Moved(b) \in [0..RxBufferSize - 1 -> Byte]
    BY SizeAssumption DEF WellFormed, Moved
  <2>2. Shifted(b) = At(Moved(b), 0, b.last)
    BY <1>1 DEF Shifted, WellFormed
  <2> QED
    BY <2>1, <2>2 DEF WellFormed, At
<1>2. CASE ~MustShift(b)
  BY <1>2 DEF Shifted
<1> QED
  BY <1>1, <1>2

\* A complete packet ends in the buffer, and its fields are bytes.
LEMMA CompletePacket ==
  ASSUME NEW b, WellFormed(b), Complete(b)
  PROVE  /\ TopicLength(b) \in Byte /\ PayloadSize(b) \in Byte
         /\ BehindPacket(b) \in b.start..b.last
         /\ PacketIn(b).topic \in Seq(Byte) /\ Len(PacketIn(b).topic) = TopicLength(b)
         /\ PacketIn(b).payload \in Seq(Byte) /\ Len(PacketIn(b).payload) = PayloadSize(b)
<1> DEFINE t == TopicLength(b)
           q == PayloadSize(b)
           s == b.start + HeaderSize
<1>1. t \in Byte /\ q \in Byte
  <2>1. b.start \in 0..RxBufferSize - 1 /\ b.start + 2 \in 0..RxBufferSize - 1
    BY SizeAssumption DEF Complete, WellFormed, HeaderSize
  <2>2. \A k \in 0..RxBufferSize - 1 : b.buffer[k] \in Byte
    BY DEF WellFormed
  <2> QED
    BY <2>1, <2>2 DEF TopicLength, PayloadSize
<1>2. /\ t \in Nat /\ q \in Nat /\ s \in Nat /\ b.last \in Nat
      /\ s + t + q <= b.last /\ s + t + q <= RxBufferSize
  <2>1. t \in Nat /\ q \in Nat
    BY <1>1, ByteAssumption
  <2>2. t + q <= (b.last - b.start) - HeaderSize
    BY DEF Complete
  <2>3. b.last \in 0..RxBufferSize /\ b.start \in 0..b.last
    BY DEF WellFormed
  <2> HIDE DEF t, q
  <2> QED
    BY <2>1, <2>2, <2>3, SizeAssumption DEF HeaderSize
<1>3. /\ \A i \in 1..t : b.buffer[s + i - 1] \in Byte
      /\ \A i \in 1..q : b.buffer[(s + t) + i - 1] \in Byte
  <2>1. \A k \in 0..RxBufferSize - 1 : b.buffer[k] \in Byte
    BY DEF WellFormed
  <2> HIDE DEF t, q, s
  <2>2. /\ \A i \in 1..t : s + i - 1 \in 0..RxBufferSize - 1
        /\ \A i \in 1..q : (s + t) + i - 1 \in 0..RxBufferSize - 1
    BY <1>2, SizeAssumption
  <2> QED
    BY <2>1, <2>2
<1>4. Slice(b, s, t) \in Seq(Byte) /\ Len(Slice(b, s, t)) = t
  <2> HIDE DEF t, q, s
  <2> QED
    BY <1>2, <1>3, SMTT(20) DEF Slice
<1>5. Slice(b, s + t, q) \in Seq(Byte) /\ Len(Slice(b, s + t, q)) = q
  <2> HIDE DEF t, q, s
  <2> QED
    BY <1>2, <1>3, SMTT(20) DEF Slice
<1>6. BehindPacket(b) \in b.start..b.last
  BY <1>2 DEF BehindPacket, WellFormed, HeaderSize
<1> QED
  BY <1>1, <1>4, <1>5, <1>6 DEF PacketIn

\* The bytes of a processed packet are bytes.
LEMMA PacketBytes ==
  ASSUME NEW b, WellFormed(b), Complete(b)
  PROVE  Bytes(PacketIn(b)) \in Seq(Byte)
<1>1. Header(PacketIn(b)) \in Seq(Byte)
  BY CompletePacket, ByteAssumption DEF Header
<1> QED
  BY <1>1, CompletePacket, ConcatProperties DEF Bytes

-----------------------------------------------------------------------------
\* TypeOK holds of every reachable state: however packets are cut up, lost or
\* garbled, bufferStartPosition and bufferLastPosition stay in rxBuffer, and
\* what is taken out of the buffer is what was received.
THEOREM TypeCorrect == Spec => []TypeOK
<1>1. Init => TypeOK
  <2> SUFFICES ASSUME Init PROVE TypeOK
    OBVIOUS
  <2>1. rxBuffer \in [0..RxBufferSize - 1 -> Byte]
    BY ByteAssumption DEF Init
  <2>2. /\ wire \in Seq(Byte) /\ rxStream \in Seq(Byte) /\ sent \in Seq(Byte)
        /\ processed \in Seq(Byte)
    BY EmptySeq DEF Init
  <2>3. bufferLastPosition \in 0..RxBufferSize /\ bufferStartPosition \in 0..bufferLastPosition
    BY SizeAssumption DEF Init
  <2>4. losses \in 0..LossBound
    BY BoundAssumption DEF Init
  <2>5. overrun \in BOOLEAN
    BY Zenon DEF Init
  <2> QED
    BY <2>1, <2>2, <2>3, <2>4, <2>5 DEF TypeOK
<1>2. TypeOK /\ [Next]_vars => TypeOK'
  <2> SUFFICES ASSUME TypeOK, [Next]_vars PROVE TypeOK'
    OBVIOUS
  <2>1. ASSUME NEW p \in Packet, SendPacket(p) PROVE TypeOK'
    <3>1. Bytes(p) \in Seq(Byte)
      BY PacketAssumption
    <3>2. wire' \in Seq(Byte) /\ sent' \in Seq(Byte)
      BY <2>1, <3>1, ConcatProperties DEF SendPacket, TypeOK
    <3> QED
      BY <2>1, <3>2 DEF SendPacket, TypeOK, bufferVars
  <2>2. ASSUME NEW n \in 1..Len(wire), UartData(n) PROVE TypeOK'
    <3>1. SubSeq(wire, 1, n) \in Seq(Byte) /\ SubSeq(wire, n + 1, Len(wire)) \in Seq(Byte)
      BY <2>2, SubSeqProperties DEF TypeOK
    <3>2. rxStream' \in Seq(Byte) /\ wire' \in Seq(Byte)
      BY <2>2, <3>1, ConcatProperties DEF UartData, TypeOK
    <3> QED
      BY <2>2, <3>2 DEF UartData, TypeOK, bufferVars
  <2>3. CASE UartFlush
    BY <2>3, BoundAssumption DEF UartFlush, TypeOK, bufferVars
  <2>4. CASE Extract
    <3> DEFINE full == Received(Rewound)
               b    == Shifted(full)
    <3>1. WellFormed(full) /\ full.last - Rewound.last \in Nat
      BY RewoundWellFormed, ReceivedWellFormed DEF WellFormed
    <3>2. WellFormed(b)
      BY <3>1, ShiftedWellFormed
    <3>3. rxStream' \in Seq(Byte)
      <4> HIDE DEF full
      <4> QED
        BY <2>4, <3>1, SubSeqProperties DEF Extract, TypeOK, full
    <3>4. PICK i \in b.start..b.last : Process(At(b.buffer, i, b.last))
      BY <2>4 DEF Extract
    <3> DEFINE c == At(b.buffer, i, b.last)
    <3>5. WellFormed(c)
      BY <3>2, <3>4 DEF WellFormed, At
    <3> HIDE DEF full, b, c
    <3>6. /\ rxBuffer' = c.buffer /\ bufferLastPosition' = c.last
          /\ bufferStartPosition' \in 0..c.last
          /\ processed' \in Seq(Byte)
      <4>1. Process(c)
        BY <3>4 DEF c
      <4>2. CASE Complete(c)
        <5>1. processed' = processed \o Bytes(PacketIn(c)) /\ Keep(c, BehindPacket(c))
          BY <4>1, <4>2 DEF Process
        <5> QED
          BY <3>5, <4>2, <5>1, CompletePacket, PacketBytes, ConcatProperties
             DEF Keep, WellFormed, TypeOK
      <4>3. CASE ~Complete(c)
        BY <3>5, <4>1, <4>3 DEF Process, Keep, WellFormed, TypeOK
      <4> QED
        BY <4>2, <4>3
    <3>7. overrun' \in BOOLEAN
      BY <2>4, Zenon DEF Extract
    <3> QED
      BY <2>4, <3>3, <3>5, <3>6, <3>7 DEF Extract, TypeOK, WellFormed
  <2>5. CASE Discard
    BY <2>5 DEF Discard, TypeOK, bufferVars
  <2>6. CASE UNCHANGED vars
    BY <2>6 DEF vars, bufferVars, TypeOK
  <2> QED
    BY <2>1, <2>2, <2>3, <2>4, <2>5, <2>6 DEF Next
<1> QED
  BY <1>1, <1>2, PTL DEF Spec
-----------------------------------------------------------------------------
\* What a packet's bytes are, by position.

\* A packet is its header, its topic and its payload, one behind the other.
LEMMA BytesAt ==
  ASSUME NEW p \in Packet
  PROVE  /\ Len(p.topic) \in Nat /\ Len(p.payload) \in Nat
         /\ Bytes(p) \in Seq(Byte)
         /\ Len(Bytes(p)) = HeaderSize + Len(p.topic) + Len(p.payload)
         /\ Bytes(p)[1] = Len(p.topic) /\ Bytes(p)[2] = Magic /\ Bytes(p)[3] = Len(p.payload)
         /\ \A i \in 1..Len(p.topic) : Bytes(p)[HeaderSize + i] = p.topic[i]
         /\ \A i \in 1..Len(p.payload) :
              Bytes(p)[HeaderSize + Len(p.topic) + i] = p.payload[i]
<1>1. p.topic \in Seq(Nat) /\ p.payload \in Seq(Nat) /\ Bytes(p) \in Seq(Byte)
  <2>1. p.topic \in Seq(Byte \ {Magic}) /\ p.payload \in Seq(Byte \ {Magic})
    BY PacketAssumption
  <2>2. Byte \ {Magic} \subseteq Nat
    BY ByteAssumption
  <2> QED
    BY <2>1, <2>2, PacketAssumption, SeqMonotonic
<1>2. Len(p.topic) \in Nat /\ Len(p.payload) \in Nat
  BY <1>1, LenProperties
<1>3. /\ Header(p) \in Seq(Nat) /\ Len(Header(p)) = 3
      /\ Header(p)[1] = Len(p.topic) /\ Header(p)[2] = Magic /\ Header(p)[3] = Len(p.payload)
  BY <1>2, ByteAssumption DEF Header
<1> DEFINE front == Header(p) \o p.topic
<1>4. /\ front \in Seq(Nat) /\ Len(front) = 3 + Len(p.topic)
      /\ \A i \in 1..(3 + Len(p.topic)) :
           front[i] = IF i <= 3 THEN Header(p)[i] ELSE p.topic[i - 3]
  <2>1. /\ front \in Seq(Nat) /\ Len(front) = Len(Header(p)) + Len(p.topic)
        /\ \A i \in 1..(Len(Header(p)) + Len(p.topic)) :
             front[i] = IF i <= Len(Header(p)) THEN Header(p)[i] ELSE p.topic[i - Len(Header(p))]
    BY <1>1, <1>3, ConcatProperties
  <2> QED
    BY <1>3, <2>1
<1> DEFINE t == Len(p.topic)
           q == Len(p.payload)
<1>5. /\ Len(Bytes(p)) = 3 + t + q
      /\ \A i \in 1..(3 + t + q) :
           Bytes(p)[i] = IF i <= 3 + t THEN front[i] ELSE p.payload[i - (3 + t)]
  <2>1. /\ Len(Bytes(p)) = Len(front) + q
        /\ \A i \in 1..(Len(front) + q) :
             Bytes(p)[i] = IF i <= Len(front) THEN front[i] ELSE p.payload[i - Len(front)]
    <3>1. Bytes(p) = front \o p.payload
      BY DEF Bytes
    <3> HIDE DEF front
    <3>2. /\ Len(front \o p.payload) = Len(front) + Len(p.payload)
          /\ \A i \in 1..(Len(front) + Len(p.payload)) :
               (front \o p.payload)[i]
                 = IF i <= Len(front) THEN front[i] ELSE p.payload[i - Len(front)]
      BY <1>1, <1>4, ConcatProperties
    <3> QED
      BY <3>1, <3>2, Zenon
  <2> QED
    BY <1>4, <2>1
<1> HIDE DEF front
<1>6. /\ Bytes(p)[1] = t /\ Bytes(p)[2] = Magic /\ Bytes(p)[3] = q
      /\ \A i \in 1..t : Bytes(p)[3 + i] = p.topic[i]
      /\ \A i \in 1..q : Bytes(p)[3 + t + i] = p.payload[i]
  <2> HIDE DEF t, q
  <2>1. t \in Nat /\ q \in Nat
    BY <1>2 DEF t, q
  <2>2. \A i \in 1..(3 + t) : Bytes(p)[i] = front[i]
    BY <1>5, <2>1
  <2>3. \A i \in 1..3 : Bytes(p)[i] = Header(p)[i]
    BY <1>4, <2>1, <2>2 DEF t
  <2>4. \A i \in 1..t : Bytes(p)[3 + i] = p.topic[i]
    <3> TAKE i \in 1..t
    <3>1. 3 + i \in 1..(3 + t) /\ ~(3 + i <= 3) /\ (3 + i) - 3 = i
      BY <2>1
    <3> QED
      BY <1>4, <2>2, <3>1 DEF t
  <2>5. \A i \in 1..q : Bytes(p)[3 + t + i] = p.payload[i]
    BY <1>5, <2>1
  <2> QED
    BY <1>3, <2>3, <2>4, <2>5 DEF t, q
<1> QED
  BY <1>1, <1>2, <1>5, <1>6 DEF HeaderSize

\* The buffer of a round that starts empty is a copy of the stream's beginning.
LEMMA DrainedRound ==
  ASSUME TypeOK, Drained, NEW n \in Nat, n <= RxBufferSize, n <= Len(rxStream)
  PROVE  LET full == Received(Rewound)
         IN  /\ full.start = 0 /\ full.last \in n..RxBufferSize
             /\ Shifted(full) = full
             /\ \A i \in 0..(n - 1) : full.buffer[i] = rxStream[i + 1]
<1> DEFINE full == Received(Rewound)
           m == IF Len(rxStream) < Room THEN Len(rxStream) ELSE Room
<1>1. Rewound = At(rxBuffer, 0, 0) /\ Room = RxBufferSize
  BY SizeAssumption DEF Rewound, Drained, Room, At
<1>2. m \in n..RxBufferSize
  BY <1>1, SizeAssumption DEF TypeOK
<1>3. full.start = 0 /\ full.last = m
  BY <1>1, <1>2 DEF Received, At
<1>4. full.buffer = [i \in 0..RxBufferSize - 1 |->
                       IF i \in 0..(m - 1) THEN rxStream[i + 1] ELSE rxBuffer[i]]
  <2>1. DOMAIN rxBuffer = 0..RxBufferSize - 1
    BY DEF TypeOK
  <2>2. full.buffer = [i \in DOMAIN rxBuffer |->
                         IF i \in 0..(0 + m - 1) THEN rxStream[i - 0 + 1] ELSE rxBuffer[i]]
    BY <1>1 DEF Received, At
  <2> HIDE DEF full, m
  <2> QED
    BY <1>2, <2>1, <2>2, SizeAssumption
<1>5. Shifted(full) = full
  BY <1>3 DEF Shifted, MustShift
<1>6. \A i \in 0..(n - 1) : full.buffer[i] = rxStream[i + 1]
  <2> HIDE DEF full, m
  <2> QED
    BY <1>2, <1>4, SizeAssumption
<1> HIDE DEF m
<1> QED
  BY <1>2, <1>3, <1>5, <1>6

\* A buffer whose bytes in use start with those of a packet has the packet in it.
LEMMA PacketAtStart ==
  ASSUME NEW b, WellFormed(b), NEW p \in Packet, Len(Bytes(p)) <= b.last - b.start,
         \A i \in 1..Len(Bytes(p)) : b.buffer[b.start + i - 1] = Bytes(p)[i]
  PROVE  /\ HeaderAt(b, b.start) /\ Complete(b) /\ Bytes(PacketIn(b)) = Bytes(p)
         /\ BehindPacket(b) = b.start + Len(Bytes(p))
<1> DEFINE s == b.start
           t == Len(p.topic)
           q == Len(p.payload)
<1>1. /\ t \in Nat /\ q \in Nat /\ Len(Bytes(p)) = 3 + t + q
      /\ b.last \in Nat /\ s \in Nat
  <2>1. t \in Nat /\ q \in Nat /\ Len(Bytes(p)) = HeaderSize + t + q
    BY BytesAt
  <2>2. b.last \in Nat /\ s \in Nat
    BY SizeAssumption DEF WellFormed
  <2> QED
    BY <2>1, <2>2 DEF HeaderSize
<1>2. b.buffer[s] = t /\ b.buffer[s + 1] = Magic /\ b.buffer[s + 2] = q
  <2>1. /\ 1 \in 1..Len(Bytes(p)) /\ 2 \in 1..Len(Bytes(p)) /\ 3 \in 1..Len(Bytes(p))
        /\ s + 1 - 1 = s /\ s + 2 - 1 = s + 1 /\ s + 3 - 1 = s + 2
    <3> HIDE DEF t, q, s
    <3> QED
      BY <1>1
  <2>2. Bytes(p)[1] = t /\ Bytes(p)[2] = Magic /\ Bytes(p)[3] = q
    BY BytesAt
  <2> QED
    BY <2>1, <2>2
<1>3. TopicLength(b) = t /\ PayloadSize(b) = q
  BY <1>2 DEF TopicLength, PayloadSize
<1>4. /\ HeaderAt(b, s) /\ Complete(b)
      /\ BehindPacket(b) = s + Len(Bytes(p))
  <2> HIDE DEF t, q
  <2> QED
    BY <1>1, <1>2, <1>3 DEF HeaderAt, Complete, BehindPacket, HeaderSize
<1>5. p.topic \in Seq(Byte) /\ p.payload \in Seq(Byte)
  <2>1. p.topic \in Seq(Byte \ {Magic}) /\ p.payload \in Seq(Byte \ {Magic})
    BY PacketAssumption
  <2> QED
    BY <2>1, SeqMonotonic
<1>6. PacketIn(b).topic = p.topic
  <2>1. PacketIn(b).topic = [i \in 1..t |-> b.buffer[s + 3 + i - 1]]
    BY <1>3 DEF PacketIn, Slice, HeaderSize
  <2>2. \A i \in 1..t : 3 + i \in 1..Len(Bytes(p)) /\ s + (3 + i) - 1 = s + 3 + i - 1
    <3> HIDE DEF t, q, s
    <3> QED
      BY <1>1
  <2>3. \A i \in 1..t : b.buffer[s + 3 + i - 1] = p.topic[i]
    <3> TAKE i \in 1..t
    <3>1. Bytes(p)[3 + i] = p.topic[i]
      BY BytesAt DEF HeaderSize
    <3> QED
      BY <2>2, <3>1
  <2>4. \A i \in 1..t : PacketIn(b).topic[i] = p.topic[i]
    BY <2>1, <2>3
  <2> QED
    BY <1>3, <1>4, <1>5, <2>4, CompletePacket, SeqEqual
<1>7. PacketIn(b).payload = p.payload
  <2>1. PacketIn(b).payload = [i \in 1..q |-> b.buffer[s + 3 + t + i - 1]]
    BY <1>3 DEF PacketIn, Slice, HeaderSize
  <2>2. \A i \in 1..q : /\ 3 + t + i \in 1..Len(Bytes(p))
                        /\ s + (3 + t + i) - 1 = s + 3 + t + i - 1
    <3> HIDE DEF t, q, s
    <3> QED
      BY <1>1
  <2>3. \A i \in 1..q : b.buffer[s + 3 + t + i - 1] = p.payload[i]
    <3> TAKE i \in 1..q
    <3>1. Bytes(p)[3 + t + i] = p.payload[i]
      BY BytesAt DEF HeaderSize
    <3> QED
      BY <2>2, <3>1
  <2>4. \A i \in 1..q : PacketIn(b).payload[i] = p.payload[i]
    BY <2>1, <2>3
  <2> QED
    BY <1>3, <1>4, <1>5, <2>4, CompletePacket, SeqEqual
<1> QED
  BY <1>4, <1>6, <1>7 DEF Bytes, Header

\* A packet that the task finds at the beginning of the stream, when its buffer
\* is empty, is processed in the same round, whatever happened before.
THEOREM WholePacketCorrect == Spec => WholePacketIsProcessed
<1>1. ASSUME TypeOK, Extract, Drained, NEW p \in Packet,
             Len(Bytes(p)) <= RxBufferSize, Len(Bytes(p)) <= Len(rxStream),
             SubSeq(rxStream, 1, Len(Bytes(p))) = Bytes(p)
      PROVE  processed' = processed \o Bytes(p)
  <2> DEFINE n == Len(Bytes(p))
             b == Received(Rewound)
  <2>1. n \in Nat /\ n >= 3
    <3> DEFINE t == Len(p.topic)
               q == Len(p.payload)
    <3>1. t \in Nat /\ q \in Nat /\ n = HeaderSize + t + q
      BY BytesAt
    <3> HIDE DEF n, t, q
    <3> QED
      BY <3>1 DEF HeaderSize
  <2>2. /\ b.start = 0 /\ b.last \in n..RxBufferSize /\ Shifted(b) = b
        /\ \A i \in 0..(n - 1) : b.buffer[i] = rxStream[i + 1]
    BY <1>1, <2>1, DrainedRound
  <2>3. WellFormed(b)
    BY <1>1, RewoundWellFormed, ReceivedWellFormed
  <2>4. \A i \in 1..n : rxStream[i] = Bytes(p)[i]
    <3>1. \A i \in 1..n : rxStream[i] \in Byte
      BY <1>1, <2>1 DEF TypeOK
    <3>2. \A i \in 1..(n - 1 + 1) : SubSeq(rxStream, 1, n)[i] = rxStream[1 + i - 1]
      BY <2>1, <3>1, SubSeqProperties
    <3> QED
      BY <1>1, <2>1, <3>2
  <2>5. PICK i \in b.start..b.last : FirstHeader(b, i) /\ Process(At(b.buffer, i, b.last))
    BY <1>1, <2>2 DEF Extract
  <2>6. \A j \in 0..(n - 1) : b.buffer[j] = Bytes(p)[j + 1]
    <3> HIDE DEF n, b
    <3> QED
      BY <2>1, <2>2, <2>4
  <2>7. HeaderAt(b, 0) /\ Complete(b) /\ Bytes(PacketIn(b)) = Bytes(p)
    <3>1. n <= b.last - b.start
      BY <2>1, <2>2
    <3> HIDE DEF b
    <3>2. \A j \in 1..n : b.buffer[b.start + j - 1] = Bytes(p)[j]
      BY <2>1, <2>2, <2>6
    <3> QED
      BY <2>2, <2>3, <3>1, <3>2, PacketAtStart
  <2>8. i = 0
    <3> HIDE DEF b, n
    <3> QED
      BY <2>1, <2>2, <2>5, <2>7 DEF FirstHeader, ScanEnds
  <2>9. At(b.buffer, i, b.last) = b
    BY <2>8, <2>2 DEF Received, At
  <2> QED
    BY <2>5, <2>7, <2>9 DEF Process
<1>2. TypeOK => [Extract /\ Drained =>
                   \A p \in Packet :
                     (Len(Bytes(p)) <= RxBufferSize /\ Len(Bytes(p)) <= Len(rxStream)
                        /\ SubSeq(rxStream, 1, Len(Bytes(p))) = Bytes(p))
                       => processed' = processed \o Bytes(p)]_vars
  BY <1>1
<1> QED
  BY <1>2, TypeCorrect, PTL DEF WholePacketIsProcessed

-----------------------------------------------------------------------------
\* What was sent is where it should be, position by position ...

Waiting == bufferLastPosition - bufferStartPosition

\* The bytes that are neither processed nor in the buffer.
Behind(k) == Len(processed) + Waiting + k

Placed ==
  /\ Len(sent) = Behind(Len(rxStream)) + Len(wire)
  /\ \A i \in 1..Len(processed) : sent[i] = processed[i]
  /\ \A i \in 1..Waiting : sent[Len(processed) + i] = rxBuffer[bufferStartPosition + i - 1]
  /\ \A i \in 1..Len(rxStream) : sent[Behind(i)] = rxStream[i]
  /\ \A i \in 1..Len(wire) : sent[Behind(Len(rxStream)) + i] = wire[i]

\* ... and the packets processed are the packets sent: B marks where each of them
\* ends, and the task has got to one of these marks.
PacketFrom(k, p) == \A i \in 1..Len(Bytes(p)) : sent[k + i] = Bytes(p)[i]

Marks(B) ==
  /\ B \subseteq 0..Len(sent)
  /\ Len(sent) \in B /\ Len(processed) \in B
  /\ \A k \in B \ {Len(sent)} :
       \E p \in Packet : k + Len(Bytes(p)) \in B /\ PacketFrom(k, p)

Intact == losses = 0 /\ ~overrun => Placed /\ \E B \in SUBSET (0..Len(sent)) : Marks(B)

LEMMA Lengths ==
  ASSUME TypeOK
  PROVE  /\ Len(sent) \in Nat /\ Len(processed) \in Nat /\ Len(rxStream) \in Nat
         /\ Len(wire) \in Nat /\ Waiting \in Nat
         /\ bufferStartPosition \in Nat /\ bufferLastPosition \in Nat
         /\ bufferLastPosition <= RxBufferSize /\ RxBufferSize \in Nat
BY SizeAssumption, LenProperties DEF TypeOK, Waiting

LEMMA IntactInit == Init => Intact
<1> SUFFICES ASSUME Init PROVE Intact
  OBVIOUS
<1>1. /\ Len(sent) = 0 /\ Len(processed) = 0 /\ Len(rxStream) = 0 /\ Len(wire) = 0
      /\ Waiting = 0
  BY DEF Init, Waiting
<1>2. Placed
  BY <1>1 DEF Placed, Behind
<1>3. {0} \in SUBSET (0..Len(sent)) /\ Marks({0})
  BY <1>1 DEF Marks
<1> QED
  BY <1>2, <1>3 DEF Intact

\* A packet more is placed at the end of the wire, and has its mark.
LEMMA SendKeepsIntact ==
  ASSUME TypeOK, Intact, NEW p \in Packet, SendPacket(p)
  PROVE  Intact'
<1> SUFFICES ASSUME losses = 0, ~overrun
             PROVE  Placed' /\ \E B \in SUBSET (0..Len(sent')) : Marks(B)'
  BY DEF Intact, SendPacket
<1> DEFINE n == Len(Bytes(p))
<1>1. /\ Bytes(p) \in Seq(Byte) /\ n \in Nat
  BY PacketAssumption, LenProperties
<1>2. /\ Len(sent') = Len(sent) + n
      /\ \A i \in 1..Len(sent) : sent'[i] = sent[i]
      /\ \A i \in 1..n : sent'[Len(sent) + i] = Bytes(p)[i]
  <2>1. /\ Len(sent') = Len(sent) + n
        /\ \A i \in 1..Len(sent) + n :
             sent'[i] = IF i <= Len(sent) THEN sent[i] ELSE Bytes(p)[i - Len(sent)]
    BY <1>1, ConcatProperties DEF TypeOK, SendPacket
  <2> HIDE DEF n
  <2>2. \A i \in 1..Len(sent) : i \in 1..Len(sent) + n /\ i <= Len(sent)
    BY <1>1, Lengths
  <2>3. \A i \in 1..n : /\ Len(sent) + i \in 1..Len(sent) + n /\ ~(Len(sent) + i <= Len(sent))
                       /\ (Len(sent) + i) - Len(sent) = i
    BY <1>1, Lengths
  <2> QED
    BY <2>1, <2>2, <2>3
<1>3. /\ Len(wire') = Len(wire) + n
      /\ \A i \in 1..Len(wire) : wire'[i] = wire[i]
      /\ \A i \in 1..n : wire'[Len(wire) + i] = Bytes(p)[i]
  <2>1. /\ Len(wire') = Len(wire) + n
        /\ \A i \in 1..Len(wire) + n :
             wire'[i] = IF i <= Len(wire) THEN wire[i] ELSE Bytes(p)[i - Len(wire)]
    BY <1>1, ConcatProperties DEF TypeOK, SendPacket
  <2> HIDE DEF n
  <2>2. \A i \in 1..Len(wire) : i \in 1..Len(wire) + n /\ i <= Len(wire)
    BY <1>1, Lengths
  <2>3. \A i \in 1..n : /\ Len(wire) + i \in 1..Len(wire) + n /\ ~(Len(wire) + i <= Len(wire))
                       /\ (Len(wire) + i) - Len(wire) = i
    BY <1>1, Lengths
  <2> QED
    BY <2>1, <2>2, <2>3
<1>4. /\ UNCHANGED <<rxStream, rxBuffer, processed>> /\ Waiting' = Waiting
      /\ bufferStartPosition' = bufferStartPosition
  BY DEF SendPacket, bufferVars, Waiting
<1>5. Placed /\ Len(sent) = Behind(Len(rxStream)) + Len(wire)
  BY DEF Intact, Placed
<1> HIDE DEF n
<1>6. Placed'
  <2>1. \A i \in 1..Len(wire') : sent'[Behind(Len(rxStream)) + i] = wire'[i]
    <3> TAKE i \in 1..Len(wire')
    <3>1. CASE i \in 1..Len(wire)
      <4>1. Behind(Len(rxStream)) + i \in 1..Len(sent)
        BY <1>5, <3>1, Lengths DEF Behind
      <4> QED
        BY <1>2, <1>3, <1>5, <3>1, <4>1 DEF Placed
    <3>2. CASE i \notin 1..Len(wire)
      <4>1. PICK j \in 1..n : i = Len(wire) + j
        <5>1. i - Len(wire) \in 1..n /\ i = Len(wire) + (i - Len(wire))
          BY <1>1, <1>3, <3>2, Lengths
        <5> QED
          BY <5>1
      <4>2. Behind(Len(rxStream)) + i = Len(sent) + j
        BY <1>5, <4>1, Lengths DEF Behind
      <4> QED
        BY <1>2, <1>3, <4>1, <4>2
    <3> QED
      BY <3>1, <3>2
  <2>2. /\ \A i \in 1..Len(processed) : sent'[i] = processed[i]
        /\ \A i \in 1..Waiting :
             sent'[Len(processed) + i] = rxBuffer[bufferStartPosition + i - 1]
        /\ \A i \in 1..Len(rxStream) : sent'[Behind(i)] = rxStream[i]
    <3>1. /\ \A i \in 1..Len(processed) : i \in 1..Len(sent)
          /\ \A i \in 1..Waiting : Len(processed) + i \in 1..Len(sent)
          /\ \A i \in 1..Len(rxStream) : Behind(i) \in 1..Len(sent)
      BY <1>5, Lengths DEF Behind
    <3> QED
      BY <1>2, <1>5, <3>1 DEF Placed
  <2>3. Len(sent') = Behind(Len(rxStream)) + Len(wire')
    BY <1>1, <1>2, <1>3, <1>5, Lengths DEF Behind
  <2> QED
    BY <1>4, <2>1, <2>2, <2>3 DEF Placed, Behind
<1>7. PICK B \in SUBSET (0..Len(sent)) : Marks(B)
  BY DEF Intact
<1>8. PICK m \in Nat : m = Len(sent') /\ Len(sent) <= m
  BY <1>1, <1>2, Lengths
<1> DEFINE B1 == B \cup {m}
<1>9. Marks(B1)'
  <2>1. B1 \subseteq 0..m
    <3>1. \A k \in 0..Len(sent) : k \in 0..m
      BY <1>8, Lengths
    <3>2. m \in 0..m
      BY <1>8
    <3> QED
      BY <1>7, <3>1, <3>2
  <2>2. Len(processed) \in B1
    BY <1>7 DEF Marks
  <2>3. ASSUME NEW k \in B1 \ {m}
        PROVE  \E q \in Packet :
                 k + Len(Bytes(q)) \in B1 /\ \A i \in 1..Len(Bytes(q)) : sent'[k + i] = Bytes(q)[i]
    <3>1. CASE k = Len(sent)
      BY <1>2, <1>8, <3>1 DEF n
    <3>2. CASE k # Len(sent)
      <4>1. PICK q \in Packet : k + Len(Bytes(q)) \in B /\ PacketFrom(k, q)
        BY <1>7, <2>3, <3>2 DEF Marks
      <4>2. \A i \in 1..Len(Bytes(q)) : k + i \in 1..Len(sent)
        <5>1. Len(Bytes(q)) \in Nat /\ k \in Nat /\ k + Len(Bytes(q)) <= Len(sent)
          BY <1>7, <2>3, <4>1, PacketAssumption, LenProperties, Lengths
        <5> QED
          BY <5>1, Lengths
      <4> QED
        BY <1>2, <4>1, <4>2 DEF PacketFrom
    <3> QED
      BY <3>1, <3>2
  <2> QED
    BY <1>4, <1>8, <2>1, <2>2, <2>3 DEF Marks, PacketFrom
<1>10. B1 \in SUBSET (0..Len(sent'))
  BY <1>8, <1>9 DEF Marks
<1> QED
  BY <1>6, <1>9, <1>10

\* Bytes that go from the wire to the stream keep their places.
LEMMA DataKeepsIntact ==
  ASSUME TypeOK, Intact, NEW n \in 1..Len(wire), UartData(n)
  PROVE  Intact'
<1> SUFFICES ASSUME losses = 0, ~overrun, Placed, NEW B \in SUBSET (0..Len(sent)), Marks(B)
             PROVE  Placed' /\ B \in SUBSET (0..Len(sent')) /\ Marks(B)'
  BY DEF Intact, UartData
<1>1. /\ \A i \in 1..n : wire[i] \in Byte
      /\ \A i \in n + 1..Len(wire) : wire[i] \in Byte
      /\ n \in Nat /\ n <= Len(wire)
  BY Lengths, ElementOfSeq DEF TypeOK
<1>2. /\ SubSeq(wire, 1, n) \in Seq(Byte) /\ Len(SubSeq(wire, 1, n)) = n
      /\ \A i \in 1..n : SubSeq(wire, 1, n)[i] = wire[i]
  BY <1>1, SubSeqProperties
<1>3. /\ Len(wire') = Len(wire) - n
      /\ \A i \in 1..(Len(wire) - n) : wire'[i] = wire[n + i]
  <2>1. /\ Len(wire') = IF n + 1 <= Len(wire) THEN Len(wire) - (n + 1) + 1 ELSE 0
        /\ \A i \in 1..Len(wire) - (n + 1) + 1 : wire'[i] = wire[(n + 1) + i - 1]
    <3>1. /\ n + 1 \in Int /\ Len(wire) \in Int
          /\ \A i \in n + 1..Len(wire) : wire[i] \in Byte
      BY <1>1, Lengths, ElementOfSeq DEF TypeOK
    <3>2. wire' = SubSeq(wire, n + 1, Len(wire))
      BY DEF UartData
    <3> QED
      BY <3>1, <3>2, SubSeqProperties
  <2>2. \A i \in 1..(Len(wire) - n) : /\ i \in 1..Len(wire) - (n + 1) + 1
                                      /\ (n + 1) + i - 1 = n + i
    BY <1>1, Lengths
  <2> QED
    BY <1>1, <2>1, <2>2, Lengths
<1>4. /\ Len(rxStream') = Len(rxStream) + n
      /\ \A i \in 1..Len(rxStream) : rxStream'[i] = rxStream[i]
      /\ \A i \in 1..n : rxStream'[Len(rxStream) + i] = wire[i]
  <2>1. /\ Len(rxStream') = Len(rxStream) + n
        /\ \A i \in 1..Len(rxStream) + n :
             rxStream'[i] = IF i <= Len(rxStream) THEN rxStream[i]
                            ELSE SubSeq(wire, 1, n)[i - Len(rxStream)]
    BY <1>2, ConcatProperties DEF TypeOK, UartData
  <2>2. \A i \in 1..Len(rxStream) : i \in 1..Len(rxStream) + n /\ i <= Len(rxStream)
    BY <1>1, Lengths
  <2>3. \A i \in 1..n : /\ Len(rxStream) + i \in 1..Len(rxStream) + n
                        /\ ~(Len(rxStream) + i <= Len(rxStream))
                        /\ (Len(rxStream) + i) - Len(rxStream) = i
    BY <1>1, Lengths
  <2> QED
    BY <1>2, <2>1, <2>2, <2>3
<1>5. /\ UNCHANGED <<sent, rxBuffer, processed>> /\ Waiting' = Waiting
      /\ bufferStartPosition' = bufferStartPosition
  BY DEF UartData, bufferVars, Waiting
<1>6. \A i \in 1..Len(rxStream') : sent[Behind(i)] = rxStream'[i]
  <2> TAKE i \in 1..Len(rxStream')
  <2>1. CASE i \in 1..Len(rxStream)
    BY <1>4, <2>1 DEF Placed
  <2>2. CASE i \notin 1..Len(rxStream)
    <3>1. PICK j \in 1..n : i = Len(rxStream) + j
      <4>1. i - Len(rxStream) \in 1..n /\ i = Len(rxStream) + (i - Len(rxStream))
        BY <1>1, <1>4, <2>2, Lengths
      <4> QED
        BY <4>1
    <3>2. j \in 1..Len(wire) /\ Behind(i) = Behind(Len(rxStream)) + j
      BY <1>1, <3>1, Lengths DEF Behind
    <3> QED
      BY <1>4, <3>1, <3>2 DEF Placed
  <2> QED
    BY <2>1, <2>2
<1>7. \A i \in 1..Len(wire') : sent[Behind(Len(rxStream')) + i] = wire'[i]
  <2> TAKE i \in 1..Len(wire')
  <2>1. i \in 1..(Len(wire) - n)
    BY <1>3
  <2>2. n + i \in 1..Len(wire)
    BY <1>1, <2>1, Lengths
  <2>3. Behind(Len(rxStream')) + i = Behind(Len(rxStream)) + (n + i)
    BY <1>1, <1>4, <2>1, Lengths DEF Behind
  <2> QED
    BY <1>3, <2>1, <2>2, <2>3 DEF Placed
<1>8. Len(sent) = Behind(Len(rxStream')) + Len(wire')
  BY <1>1, <1>3, <1>4, Lengths DEF Behind, Placed
<1>9. Placed'
  BY <1>5, <1>6, <1>7, <1>8 DEF Placed, Behind
<1> QED
  BY <1>5, <1>9 DEF Marks, PacketFrom

\* What a round receives is placed in the buffer behind what is there, be it
\* where it was or, if there was nothing, at the start.
LEMMA ReceivedPlaced ==
  ASSUME TypeOK, Placed, NEW full, full = Received(Rewound)
  PROVE  LET n == full.last - Rewound.last
         IN  /\ n \in 0..Len(rxStream)
             /\ full.last - full.start = Waiting + n
             /\ \A i \in 1..(Waiting + n) :
                  sent[Len(processed) + i] = full.buffer[full.start + i - 1]
<1> DEFINE r == Rewound
           n == full.last - r.last
<1>1. /\ WellFormed(r) /\ WellFormed(full) /\ full.start = r.start
      /\ full.last \in r.last..(r.last + Len(rxStream))
  BY RewoundWellFormed, ReceivedWellFormed
<1>2. /\ r.start \in Nat /\ r.last \in Nat /\ full.last \in Nat /\ full.last <= RxBufferSize
      /\ r.start <= r.last /\ r.last <= full.last
  BY <1>1, SizeAssumption DEF WellFormed
<1>3. n \in 0..Len(rxStream) /\ full.last = r.last + n
  BY <1>1, <1>2, Lengths
<1>4. r.last - r.start = Waiting /\ r.buffer = rxBuffer
      /\ (Waiting # 0 => r.start = bufferStartPosition)
  BY Lengths DEF Rewound, At, Drained, Waiting
<1>5. /\ \A i \in r.last..(r.last + n - 1) : full.buffer[i] = rxStream[i - r.last + 1]
      /\ \A i \in 0..(r.last - 1) : full.buffer[i] = rxBuffer[i]
  <2> DEFINE m == IF Len(rxStream) < Room THEN Len(rxStream) ELSE Room
  <2>1. full.last = r.last + m
    BY DEF Received, At
  <2>2. m = n
    <3>1. m \in Int
      BY Lengths, RewoundWellFormed
    <3> HIDE DEF m, n, r
    <3> QED
      BY <1>2, <1>3, <2>1, <3>1, Lengths
  <2>3. DOMAIN r.buffer = 0..RxBufferSize - 1
    BY <1>1 DEF WellFormed
  <2>4. full.buffer = [i \in DOMAIN r.buffer |->
                         IF i \in r.last..(r.last + m - 1) THEN rxStream[i - r.last + 1]
                         ELSE r.buffer[i]]
    BY DEF Received, At
  <2>5. full.buffer = [i \in 0..RxBufferSize - 1 |->
                         IF i \in r.last..(r.last + n - 1) THEN rxStream[i - r.last + 1]
                         ELSE rxBuffer[i]]
    BY <1>4, <2>2, <2>3, <2>4
  <2> HIDE DEF m, n, r
  <2>6. /\ \A i \in r.last..(r.last + n - 1) : i \in 0..RxBufferSize - 1
        /\ \A i \in 0..(r.last - 1) : i \in 0..RxBufferSize - 1 /\ i \notin r.last..(r.last + n - 1)
    <3>1. n \in Nat /\ r.last + n <= RxBufferSize
      BY <1>2, <1>3
    <3> QED
      BY <1>2, <3>1, SizeAssumption
  <2> QED
    BY <2>5, <2>6
<1> HIDE DEF n, r
<1>6. full.last - full.start = Waiting + n
  BY <1>1, <1>2, <1>3, <1>4
<1> DEFINE start == r.start
           last == r.last
<1> HIDE DEF start, last
<1>8. start \in Nat /\ last \in Nat /\ n \in Nat /\ n <= Len(rxStream) /\ Waiting \in Nat
      /\ last = start + Waiting /\ Len(rxStream) \in Nat /\ Len(processed) \in Nat
  BY <1>2, <1>3, <1>4, Lengths DEF start, last
<1>7. ASSUME NEW i \in 1..(Waiting + n)
      PROVE  sent[Len(processed) + i] = full.buffer[full.start + i - 1]
  <2>1. CASE i <= Waiting
    <3>1. i \in 1..Waiting /\ Waiting # 0 /\ start + i - 1 \in 0..(last - 1)
      BY <1>8, <2>1
    <3>2. full.buffer[r.start + i - 1] = rxBuffer[bufferStartPosition + i - 1]
      BY <1>4, <1>5, <3>1 DEF start, last
    <3> QED
      BY <1>1, <3>1, <3>2 DEF Placed
  <2>2. CASE ~(i <= Waiting)
    <3>1. PICK j \in 1..n : i = Waiting + j
      <4>1. i - Waiting \in 1..n /\ i = Waiting + (i - Waiting)
        BY <1>8, <2>2
      <4> QED
        BY <4>1
    <3>2. /\ start + i - 1 \in last..(last + n - 1)
          /\ (start + i - 1) - last + 1 = j
      BY <1>8, <3>1
    <3>3. j \in 1..Len(rxStream) /\ Len(processed) + i = Behind(j)
      BY <1>8, <3>1 DEF Behind
    <3>4. full.buffer[r.start + i - 1] = rxStream[j]
      BY <1>5, <3>2 DEF start, last
    <3> QED
      BY <1>1, <3>3, <3>4 DEF Placed
  <2> QED
    BY <2>1, <2>2
<1> QED
  BY <1>3, <1>6, <1>7 DEF n, r

\* A round takes n bytes from the stream and k from the buffer: what is behind
\* them keeps its place.
LEMMA RoundKeepsPlaced ==
  ASSUME TypeOK, Placed, UNCHANGED <<sent, wire>>,
         NEW n \in 0..Len(rxStream), rxStream' = SubSeq(rxStream, n + 1, Len(rxStream)),
         NEW k \in 0..(Waiting + n),
         Len(processed') = Len(processed) + k, Waiting' = (Waiting + n) - k,
         \A i \in 1..Len(processed') : sent[i] = processed'[i],
         \A i \in 1..Waiting' :
           sent[Len(processed') + i] = rxBuffer'[bufferStartPosition' + i - 1]
  PROVE  Placed'
<1>1. /\ Len(sent) \in Nat /\ Len(processed) \in Nat /\ Len(rxStream) \in Nat
      /\ Len(wire) \in Nat /\ Waiting \in Nat /\ n \in Nat /\ n <= Len(rxStream)
      /\ k \in Nat /\ k <= Waiting + n
  BY Lengths
<1>2. /\ Len(rxStream') = Len(rxStream) - n
      /\ \A i \in 1..(Len(rxStream) - n) : rxStream'[i] = rxStream[n + i]
  <2>1. \A i \in n + 1..Len(rxStream) : rxStream[i] \in Byte
    BY <1>1, ElementOfSeq DEF TypeOK
  <2>2. /\ Len(rxStream') = IF n + 1 <= Len(rxStream) THEN Len(rxStream) - (n + 1) + 1 ELSE 0
        /\ \A i \in 1..Len(rxStream) - (n + 1) + 1 : rxStream'[i] = rxStream[(n + 1) + i - 1]
    <3>1. n + 1 \in Int /\ Len(rxStream) \in Int
      BY <1>1
    <3> QED
      BY <2>1, <3>1, SubSeqProperties
  <2>3. \A i \in 1..(Len(rxStream) - n) : /\ i \in 1..Len(rxStream) - (n + 1) + 1
                                          /\ (n + 1) + i - 1 = n + i
    BY <1>1
  <2> QED
    BY <1>1, <2>2, <2>3
<1>3. \A i \in 1..Len(rxStream') :
        /\ i \in 1..(Len(rxStream) - n) /\ n + i \in 1..Len(rxStream)
        /\ Len(processed') + Waiting' + i = Len(processed) + Waiting + (n + i)
  <2>1. TAKE i \in 1..Len(rxStream')
  <2>2. i \in 1..(Len(rxStream) - n)
    BY <1>2, <2>1
  <2> QED
    BY <1>1, <2>2
<1>4. \A i \in 1..Len(rxStream') : sent'[Len(processed') + Waiting' + i] = rxStream'[i]
  BY <1>2, <1>3 DEF Placed, Behind
<1>5. Len(processed') + Waiting' + Len(rxStream') = Behind(Len(rxStream))
  <2>1. /\ Len(processed') = Len(processed) + k /\ Waiting' = (Waiting + n) - k
        /\ Len(rxStream') = Len(rxStream) - n
    BY <1>2
  <2>2. (Len(processed) + k) + ((Waiting + n) - k) + (Len(rxStream) - n)
          = Len(processed) + Waiting + Len(rxStream)
    BY <1>1
  <2> QED
    BY <2>1, <2>2, Zenon DEF Behind
<1>6. sent' = sent /\ wire' = wire
  OBVIOUS
<1> QED
  BY <1>4, <1>5, <1>6 DEF Placed, Behind

\* A packet is what its header says it is.
LEMMA CompleteIsWhole ==
  ASSUME NEW b, WellFormed(b), NEW p \in Packet, Complete(b),
         \A i \in 1..3 : b.buffer[b.start + i - 1] = Bytes(p)[i]
  PROVE  Len(Bytes(p)) <= b.last - b.start
<1> DEFINE t == Len(p.topic)
           q == Len(p.payload)
<1>1. /\ t \in Nat /\ q \in Nat /\ Len(Bytes(p)) = 3 + t + q
      /\ Bytes(p)[1] = t /\ Bytes(p)[3] = q
  BY BytesAt DEF HeaderSize
<1>2. b.start \in Nat /\ b.last \in Nat
  BY SizeAssumption DEF WellFormed
<1>3. b.start + 1 - 1 = b.start /\ b.start + 3 - 1 = b.start + 2 /\ 1 \in 1..3 /\ 3 \in 1..3
  BY <1>2
<1>4. TopicLength(b) = t /\ PayloadSize(b) = q
  BY <1>1, <1>3 DEF TopicLength, PayloadSize
<1> HIDE DEF t, q
<1> QED
  BY <1>1, <1>2, <1>4 DEF Complete, HeaderSize

\* A round that overruns nothing looks for a header where the next packet
\* starts, and processes that packet or nothing.
LEMMA ExtractKeepsIntact ==
  ASSUME TypeOK, TypeOK', Intact, Extract
  PROVE  Intact'
<1> SUFFICES ASSUME losses = 0, ~overrun, ~MustShift(Received(Rewound)),
                    Placed, NEW B \in SUBSET (0..Len(sent)), Marks(B)
             PROVE  Placed' /\ B \in SUBSET (0..Len(sent')) /\ Marks(B)'
  BY DEF Intact, Extract
<1>1. PICK full : full = Received(Rewound)
  OBVIOUS
<1>2. PICK n \in 0..Len(rxStream) :
        /\ n = full.last - Rewound.last
        /\ full.last - full.start = Waiting + n
        /\ \A i \in 1..(Waiting + n) :
             sent[Len(processed) + i] = full.buffer[full.start + i - 1]
  BY <1>1, ReceivedPlaced
<1>3. WellFormed(full)
  BY <1>1, RewoundWellFormed, ReceivedWellFormed
<1>4. /\ rxStream' = SubSeq(rxStream, n + 1, Len(rxStream))
      /\ \E i \in full.start..full.last : FirstHeader(full, i)
                                          /\ Process(At(full.buffer, i, full.last))
      /\ UNCHANGED <<wire, sent, losses>>
  BY <1>1, <1>2 DEF Extract, Shifted
<1>5. /\ full.start \in Nat /\ full.last \in Nat /\ Len(processed) \in Nat /\ Waiting \in Nat
      /\ n \in Nat /\ n <= Len(rxStream) /\ Len(sent) \in Nat /\ Len(rxStream) \in Nat
      /\ Len(wire) \in Nat /\ full.start <= full.last
  BY <1>2, <1>3, Lengths, SizeAssumption DEF WellFormed
<1>6. ASSUME full.last - full.start >= 3
      PROVE  \E p \in Packet : /\ Len(processed) + Len(Bytes(p)) \in B
                               /\ PacketFrom(Len(processed), p)
                               /\ \A i \in 1..3 : full.buffer[full.start + i - 1] = Bytes(p)[i]
  <2>1. Len(processed) # Len(sent)
    <3>1. Len(sent) = Len(processed) + Waiting + Len(rxStream) + Len(wire)
      BY DEF Placed, Behind
    <3> QED
      BY <1>2, <1>5, <1>6, <3>1
  <2>2. PICK p \in Packet : Len(processed) + Len(Bytes(p)) \in B /\ PacketFrom(Len(processed), p)
    BY <2>1 DEF Marks
  <2>3. \A i \in 1..3 : i \in 1..Len(Bytes(p)) /\ i \in 1..(Waiting + n)
    <3> DEFINE t == Len(p.topic)
               q == Len(p.payload)
    <3>1. t \in Nat /\ q \in Nat /\ Len(Bytes(p)) = HeaderSize + t + q
      BY BytesAt
    <3> HIDE DEF t, q
    <3>2. Len(Bytes(p)) \in Nat /\ Len(Bytes(p)) >= 3
      BY <3>1 DEF HeaderSize
    <3> QED
      BY <1>2, <1>5, <1>6, <3>2
  <2>4. \A i \in 1..3 : full.buffer[full.start + i - 1] = Bytes(p)[i]
    BY <1>2, <2>2, <2>3 DEF PacketFrom
  <2> QED
    BY <2>2, <2>4
<1>7. ScanEnds(full, full.start)
  <2>1. CASE full.last - full.start >= 3
    <3>1. PICK p \in Packet : \A i \in 1..3 : full.buffer[full.start + i - 1] = Bytes(p)[i]
      BY <1>6, <2>1
    <3>2. full.buffer[full.start + 1] = Magic
      <4>1. full.start + 2 - 1 = full.start + 1 /\ 2 \in 1..3
        BY <1>5
      <4> QED
        BY <3>1, <4>1, BytesAt
    <3> QED
      BY <2>1, <3>2 DEF ScanEnds, HeaderAt, HeaderSize
  <2>2. CASE ~(full.last - full.start >= 3)
    BY <1>5, <2>2 DEF ScanEnds, HeaderSize
  <2> QED
    BY <2>1, <2>2
<1>8. Process(At(full.buffer, full.start, full.last))
  <2>1. PICK i \in full.start..full.last : FirstHeader(full, i)
                                           /\ Process(At(full.buffer, i, full.last))
    BY <1>4
  <2>2. i = full.start
    <3>1. ~(full.start \in full.start..(i - 1))
      BY <1>7, <2>1 DEF FirstHeader
    <3> QED
      BY <1>5, <2>1, <3>1
  <2> QED
    BY <2>1, <2>2
<1>9. PICK c : c = At(full.buffer, full.start, full.last)
  OBVIOUS
<1>10. /\ WellFormed(c) /\ c.buffer = full.buffer /\ c.start = full.start /\ c.last = full.last
       /\ Process(c)
  BY <1>3, <1>8, <1>9 DEF WellFormed, At
<1>11. CASE ~Complete(c)
  <2>1. /\ processed' = processed /\ rxBuffer' = full.buffer
        /\ bufferStartPosition' = full.start /\ bufferLastPosition' = full.last
    BY <1>10, <1>11 DEF Process, Keep
  <2>2. Waiting' = (Waiting + n) - 0 /\ Len(processed') = Len(processed) + 0
        /\ 0 \in 0..(Waiting + n) /\ (Waiting + n) - 0 = Waiting + n
    <3>1. Waiting' = Waiting + n
      BY <1>2, <2>1 DEF Waiting
    <3> QED
      BY <1>5, <2>1, <3>1
  <2>3. /\ \A i \in 1..Len(processed') : sent[i] = processed'[i]
        /\ \A i \in 1..Waiting' :
             sent[Len(processed') + i] = rxBuffer'[bufferStartPosition' + i - 1]
    BY <1>2, <2>1, <2>2 DEF Placed
  <2>4. Placed'
    BY <1>4, <2>2, <2>3, RoundKeepsPlaced
  <2> QED
    BY <1>4, <2>1, <2>4 DEF Marks, PacketFrom
<1>12. CASE Complete(c)
  <2>1. full.last - full.start >= 3
    BY <1>10, <1>12 DEF Complete, HeaderSize
  <2>2. PICK p \in Packet : /\ Len(processed) + Len(Bytes(p)) \in B
                            /\ PacketFrom(Len(processed), p)
                            /\ \A i \in 1..3 : full.buffer[full.start + i - 1] = Bytes(p)[i]
    BY <1>6, <2>1
  <2>3. PICK k \in Nat : k = Len(Bytes(p))
    BY BytesAt, LenProperties
  <2>4. k <= Waiting + n /\ k <= c.last - c.start
    BY <1>2, <1>10, <1>12, <2>2, <2>3, CompleteIsWhole
  <2>5. \A i \in 1..k : c.buffer[c.start + i - 1] = Bytes(p)[i]
    <3>1. \A i \in 1..k : i \in 1..(Waiting + n)
      BY <1>5, <2>4
    <3> QED
      BY <1>2, <1>10, <2>2, <2>3, <3>1 DEF PacketFrom
  <2>6. Bytes(PacketIn(c)) = Bytes(p) /\ BehindPacket(c) = c.start + k
    BY <1>10, <2>3, <2>4, <2>5, PacketAtStart
  <2>7. /\ processed' = processed \o Bytes(p) /\ rxBuffer' = full.buffer
        /\ bufferStartPosition' = full.start + k /\ bufferLastPosition' = full.last
    BY <1>10, <1>12, <2>6 DEF Process, Keep
  <2>8. /\ Len(processed') = Len(processed) + k
        /\ \A i \in 1..(Len(processed) + k) :
             processed'[i] = IF i <= Len(processed) THEN processed[i]
                             ELSE Bytes(p)[i - Len(processed)]
    BY <2>3, <2>7, BytesAt, ConcatProperties DEF TypeOK
  <2>9. Waiting' = (Waiting + n) - k /\ k \in 0..(Waiting + n)
    <3>1. Waiting' = full.last - (full.start + k)
      BY <2>7 DEF Waiting
    <3> QED
      BY <1>2, <1>5, <2>4, <3>1
  <2>10. \A i \in 1..Len(processed') : sent[i] = processed'[i]
    <3>1. ASSUME NEW i \in 1..(Len(processed) + k) PROVE sent[i] = processed'[i]
      <4>1. CASE i <= Len(processed)
        <5>1. i \in 1..Len(processed)
          BY <1>5, <4>1
        <5> QED
          BY <2>8, <4>1, <5>1 DEF Placed
      <4>2. CASE ~(i <= Len(processed))
        <5>1. /\ i - Len(processed) \in 1..k
              /\ Len(processed) + (i - Len(processed)) = i
          BY <1>5, <4>2
        <5> QED
          BY <2>2, <2>3, <2>8, <4>2, <5>1 DEF PacketFrom
      <4> QED
        BY <4>1, <4>2
    <3> QED
      BY <2>8, <3>1
  <2>11. \A i \in 1..Waiting' :
           sent[Len(processed') + i] = rxBuffer'[bufferStartPosition' + i - 1]
    <3>1. \A i \in 1..((Waiting + n) - k) :
            /\ k + i \in 1..(Waiting + n)
            /\ Len(processed) + (k + i) = (Len(processed) + k) + i
            /\ full.start + (k + i) - 1 = (full.start + k) + i - 1
      BY <1>5, <2>4
    <3> QED
      BY <1>2, <2>7, <2>8, <2>9, <3>1
  <2>12. Placed'
    BY <1>4, <2>8, <2>9, <2>10, <2>11, RoundKeepsPlaced
  <2>13. Len(processed') \in B
    BY <2>2, <2>3, <2>8
  <2> QED
    BY <1>4, <2>12, <2>13 DEF Marks, PacketFrom
<1> QED
  BY <1>11, <1>12

\* Intact holds of every reachable state.
LEMMA IntactCorrect == Spec => []Intact
<1>1. TypeOK /\ TypeOK' /\ Intact /\ [Next]_vars => Intact'
  <2> SUFFICES ASSUME TypeOK, TypeOK', Intact, [Next]_vars PROVE Intact'
    OBVIOUS
  <2>1. ASSUME NEW p \in Packet, SendPacket(p) PROVE Intact'
    BY <2>1, SendKeepsIntact
  <2>2. ASSUME NEW n \in 1..Len(wire), UartData(n) PROVE Intact'
    BY <2>2, DataKeepsIntact
  <2>3. CASE UartFlush
    BY <2>3, BoundAssumption DEF UartFlush, Intact, TypeOK
  <2>4. CASE Extract
    BY <2>4, ExtractKeepsIntact
  <2>5. CASE Discard
    BY <2>5 DEF Discard, Intact
  <2>6. CASE UNCHANGED vars
    BY <2>6 DEF vars, bufferVars, Intact, Placed, Behind, Waiting, Marks, PacketFrom
  <2> QED
    BY <2>1, <2>2, <2>3, <2>4, <2>5, <2>6 DEF Next
<1> QED
  BY <1>1, IntactInit, TypeCorrect, PTL DEF Spec

\* However the bytes are cut into UART events, none is lost, repeated or moved
\* on the way from the wire to the packets, until the buffer overruns.
THEOREM ConservationCorrect == Spec => []Conservation
<1>1. TypeOK /\ Intact => Conservation
  <2> SUFFICES ASSUME TypeOK, Placed
               PROVE  sent = processed \o Window \o rxStream \o wire
    BY DEF Intact, Conservation
  <2>1. /\ Window \in Seq(Byte) /\ Len(Window) = Waiting
        /\ \A i \in 1..Waiting : Window[i] = rxBuffer[bufferStartPosition + i - 1]
    <3>1. /\ Waiting \in Nat /\ bufferStartPosition \in Nat
          /\ bufferStartPosition + Waiting <= RxBufferSize /\ RxBufferSize \in Nat
      BY Lengths DEF Waiting
    <3>2. \A i \in 1..Waiting : bufferStartPosition + i - 1 \in 0..RxBufferSize - 1
      BY <3>1
    <3>3. \A i \in 1..Waiting : rxBuffer[bufferStartPosition + i - 1] \in Byte
      BY <3>2 DEF TypeOK
    <3>4. Window = [i \in 1..Waiting |-> rxBuffer[bufferStartPosition + i - 1]]
      BY DEF Window, Waiting
    <3> HIDE DEF Waiting
    <3> QED
      BY <3>1, <3>3, <3>4
  <2> DEFINE a == processed \o Window
             b == a \o rxStream
             P == Len(processed)
             R == Len(rxStream)
             M == Len(wire)
  <2>2. P \in Nat /\ R \in Nat /\ M \in Nat /\ Waiting \in Nat
    BY Lengths
  <2>3. /\ a \in Seq(Byte) /\ Len(a) = P + Waiting
        /\ \A i \in 1..(P + Waiting) : a[i] = IF i <= P THEN processed[i] ELSE Window[i - P]
    BY <2>1, ConcatProperties DEF TypeOK
  <2>4. /\ b \in Seq(Byte) /\ Len(b) = P + Waiting + R
        /\ \A i \in 1..(P + Waiting + R) :
             b[i] = IF i <= P + Waiting THEN a[i] ELSE rxStream[i - (P + Waiting)]
    <3> HIDE DEF a
    <3>1. /\ b \in Seq(Byte) /\ Len(b) = Len(a) + Len(rxStream)
          /\ \A i \in 1..(Len(a) + Len(rxStream)) :
               b[i] = IF i <= Len(a) THEN a[i] ELSE rxStream[i - Len(a)]
      BY <2>3, ConcatProperties DEF TypeOK
    <3> HIDE DEF b
    <3> QED
      BY <2>3, <3>1, Zenon
  <2>5. /\ b \o wire \in Seq(Byte) /\ Len(b \o wire) = P + Waiting + R + M
        /\ \A i \in 1..(P + Waiting + R + M) :
             (b \o wire)[i] = IF i <= P + Waiting + R THEN b[i]
                              ELSE wire[i - (P + Waiting + R)]
    <3> HIDE DEF b
    <3>1. /\ b \o wire \in Seq(Byte) /\ Len(b \o wire) = Len(b) + Len(wire)
          /\ \A i \in 1..(Len(b) + Len(wire)) :
               (b \o wire)[i] = IF i <= Len(b) THEN b[i] ELSE wire[i - Len(b)]
      BY <2>4, ConcatProperties DEF TypeOK
    <3> QED
      BY <2>4, <3>1, Zenon
  <2>6. /\ Len(sent) = P + Waiting + R + M
        /\ \A i \in 1..P : sent[i] = processed[i]
        /\ \A i \in 1..Waiting : sent[P + i] = Window[i]
        /\ \A i \in 1..R : sent[P + Waiting + i] = rxStream[i]
        /\ \A i \in 1..M : sent[P + Waiting + R + i] = wire[i]
    BY <2>1 DEF Placed, Behind
  <2> HIDE DEF a, b, P, R, M
  <2>7. ASSUME NEW i \in 1..(P + Waiting + R + M) PROVE sent[i] = (b \o wire)[i]
    <3>1. CASE i <= P
      <4>1. i \in 1..P /\ i <= P + Waiting /\ i <= P + Waiting + R
            /\ i \in 1..(P + Waiting) /\ i \in 1..(P + Waiting + R)
        BY <2>2, <3>1
      <4> QED
        BY <2>3, <2>4, <2>5, <2>6, <3>1, <4>1
    <3>2. CASE ~(i <= P) /\ i <= P + Waiting
      <4>1. /\ i - P \in 1..Waiting /\ P + (i - P) = i /\ i <= P + Waiting + R
            /\ i \in 1..(P + Waiting) /\ i \in 1..(P + Waiting + R)
        BY <2>2, <3>2
      <4>2. sent[i] = Window[i - P]
        BY <2>6, <4>1
      <4>3. a[i] = Window[i - P]
        BY <2>3, <3>2, <4>1
      <4> QED
        BY <2>4, <2>5, <3>2, <4>1, <4>2, <4>3
    <3>3. CASE ~(i <= P + Waiting) /\ i <= P + Waiting + R
      <4>1. /\ i - (P + Waiting) \in 1..R /\ P + Waiting + (i - (P + Waiting)) = i
            /\ i \in 1..(P + Waiting + R)
        BY <2>2, <3>3
      <4>2. sent[i] = rxStream[i - (P + Waiting)]
        BY <2>6, <4>1
      <4> QED
        BY <2>4, <2>5, <3>3, <4>1, <4>2
    <3>4. CASE ~(i <= P + Waiting + R)
      <4>1. /\ i - (P + Waiting + R) \in 1..M
            /\ P + Waiting + R + (i - (P + Waiting + R)) = i
        BY <2>2, <3>4
      <4> QED
        BY <2>5, <2>6, <3>4, <4>1
    <3> QED
      BY <2>2, <3>1, <3>2, <3>3, <3>4
  <2>8. sent = b \o wire
    BY <2>5, <2>6, <2>7, SeqEqual DEF TypeOK
  <2> QED
    BY <2>8 DEF a, b
<1> QED
  BY <1>1, TypeCorrect, IntactCorrect, PTL
=============================================================================
