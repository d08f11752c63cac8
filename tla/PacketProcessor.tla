-------------------------- MODULE PacketProcessor --------------------------
(***************************************************************************)
(* What a clock sends over its UART, from the wire to the packet handler.  *)
(* UartEvent copies the bytes of an UART_DATA event into rxStream; the     *)
(* packet task (PacketProcessor::taskMain) moves them into rxBuffer, looks *)
(* for the magic of a header, and processes at most one packet each time   *)
(* it has received something.                                              *)
(*                                                                         *)
(* A byte is a number.  Each field of PacketHeader is one byte here, and   *)
(* its status, which nobody reads, is left out.  The packet task shares    *)
(* only rxStream, which it touches first, so one round of its loop is one  *)
(* action.                                                                 *)
(***************************************************************************)
EXTENDS Integers, Sequences

CONSTANTS Byte,           \* the values of a byte
          Magic,          \* ProtocolMagic
          Packet,         \* the packets a clock sends
          RxBufferSize,   \* bytes of rxBuffer (256 in the code)
          StreamSize,     \* bytes of rxStream (512 in the code)
          SentBound,      \* bound: bytes sent before the last packet
          LossBound       \* bound: losses on the wire

HeaderSize == 3
Header(p) == <<Len(p.topic), Magic, Len(p.payload)>>
Bytes(p)  == Header(p) \o p.topic \o p.payload

ASSUME ByteAssumption   == Byte \subseteq Nat /\ 0 \in Byte /\ Magic \in Byte
ASSUME PacketAssumption == /\ Packet \subseteq [topic : Seq(Byte \ {Magic}), payload : Seq(Byte \ {Magic})]
                           /\ \A p \in Packet : Bytes(p) \in Seq(Byte)
ASSUME SizeAssumption   == /\ RxBufferSize \in Nat /\ RxBufferSize > HeaderSize
                           /\ StreamSize \in Nat \ {0}
ASSUME BoundAssumption  == SentBound \in Nat /\ LossBound \in Nat

VARIABLES wire,                  \* bytes sent that the UART's driver has
          rxStream,              \* bytes between the two tasks
          rxBuffer,
          bufferStartPosition,
          bufferLastPosition,
          sent,                  \* history: the bytes of the packets sent
          processed,             \* history: the bytes of the packets processed
          losses,                \* history: how often the wire lost bytes
          overrun                \* history: rxBuffer was full with bytes left in it

bufferVars == <<rxBuffer, bufferStartPosition, bufferLastPosition>>
vars == <<wire, rxStream, bufferVars, sent, processed, losses, overrun>>

TypeOK ==
  /\ wire \in Seq(Byte)
  /\ rxStream \in Seq(Byte)
  /\ rxBuffer \in [0..RxBufferSize - 1 -> Byte]
  /\ bufferLastPosition \in 0..RxBufferSize
  /\ bufferStartPosition \in 0..bufferLastPosition
  /\ sent \in Seq(Byte)
  /\ processed \in Seq(Byte)
  /\ losses \in 0..LossBound
  /\ overrun \in BOOLEAN

Init ==
  /\ wire = << >> /\ rxStream = << >>
  /\ rxBuffer = [i \in 0..RxBufferSize - 1 |-> 0]
  /\ bufferStartPosition = 0 /\ bufferLastPosition = 0
  /\ sent = << >> /\ processed = << >> /\ losses = 0 /\ overrun = FALSE

-----------------------------------------------------------------------------
\* The clock and the UART's driver.

SendPacket(p) ==
  /\ Len(sent) < SentBound
  /\ sent' = sent \o Bytes(p)
  /\ wire' = wire \o Bytes(p)
  /\ UNCHANGED <<rxStream, bufferVars, processed, losses, overrun>>

\* UART_DATA: n bytes go to the packet task, which has room for them.
UartData(n) ==
  /\ Len(rxStream) + n <= StreamSize
  /\ rxStream' = rxStream \o SubSeq(wire, 1, n)
  /\ wire' = SubSeq(wire, n + 1, Len(wire))
  /\ UNCHANGED <<bufferVars, sent, processed, losses, overrun>>

\* UART_FIFO_OVF and UART_BUFFER_FULL: uart_flush_input.
UartFlush ==
  /\ wire # << >>
  /\ losses < LossBound
  /\ losses' = losses + 1
  /\ wire' = << >>
  /\ UNCHANGED <<rxStream, bufferVars, sent, processed, overrun>>

-----------------------------------------------------------------------------
\* The packet task.

Drained == bufferStartPosition = bufferLastPosition

\* A buffer with positions, as the steps of extractPacketFromReceiveStream pass
\* it on.
At(buffer, start, last) == [buffer |-> buffer, start |-> start, last |-> last]

Rewound == IF Drained THEN At(rxBuffer, 0, 0)
                      ELSE At(rxBuffer, bufferStartPosition, bufferLastPosition)

Room == RxBufferSize - Rewound.last

Received(b) ==
  LET n == IF Len(rxStream) < Room THEN Len(rxStream) ELSE Room
  IN  At([i \in DOMAIN b.buffer |->
            IF i \in b.last..(b.last + n - 1) THEN rxStream[i - b.last + 1] ELSE b.buffer[i]],
         b.start, b.last + n)

\* When the buffer is full, its bytes move to the beginning.  The code resets
\* bufferStartPosition before it subtracts it from bufferLastPosition.
MustShift(b) == b.last >= RxBufferSize /\ b.start > 0
Moved(b) == [i \in DOMAIN b.buffer |->
               IF i < b.last - b.start THEN b.buffer[i + b.start] ELSE b.buffer[i]]
Shifted(b) == IF MustShift(b) THEN At(Moved(b), 0, b.last - 0) ELSE b

\* i is the first position that has a header, or too few bytes left for one.
HeaderAt(b, i) == b.last - i >= HeaderSize /\ b.buffer[i + 1] = Magic
ScanEnds(b, i) == HeaderAt(b, i) \/ b.last - i < HeaderSize
FirstHeader(b, i) == ScanEnds(b, i) /\ \A j \in b.start..(i - 1) : ~ScanEnds(b, j)

TopicLength(b) == b.buffer[b.start]
PayloadSize(b) == b.buffer[b.start + 2]
\* Mutants: the header counted as room for the packet; a packet that fills the
\* rest of the buffer taken as incomplete.
CompleteWithHeader(b) == /\ b.last - b.start >= HeaderSize
                         /\ TopicLength(b) + PayloadSize(b) <= b.last - b.start
CompleteStrict(b) == /\ b.last - b.start >= HeaderSize
                     /\ TopicLength(b) + PayloadSize(b) < (b.last - b.start) - HeaderSize

Complete(b) == /\ b.last - b.start >= HeaderSize
               /\ TopicLength(b) + PayloadSize(b) <= (b.last - b.start) - HeaderSize

Slice(b, from, length) == [i \in 1..length |-> b.buffer[from + i - 1]]
PacketIn(b) ==
  [topic   |-> Slice(b, b.start + HeaderSize, TopicLength(b)),
   payload |-> Slice(b, b.start + HeaderSize + TopicLength(b), PayloadSize(b))]
\* Mutant: the payload is not skipped.
BehindTopic(b) == b.start + HeaderSize + TopicLength(b)
BehindPacket(b) == b.start + HeaderSize + TopicLength(b) + PayloadSize(b)

Keep(b, start) ==
  /\ rxBuffer' = b.buffer
  /\ bufferStartPosition' = start
  /\ bufferLastPosition' = b.last

\* A round that receives something ...
Process(b) ==
  \/ Complete(b) /\ processed' = processed \o Bytes(PacketIn(b)) /\ Keep(b, BehindPacket(b))
  \/ ~Complete(b) /\ Keep(b, b.start) /\ UNCHANGED processed

Extract ==
  /\ rxStream # << >> /\ Room > 0
  /\ LET full == Received(Rewound)
         b    == Shifted(full)
     IN  /\ rxStream' = SubSeq(rxStream, (full.last - Rewound.last) + 1, Len(rxStream))
         /\ \E i \in b.start..b.last : FirstHeader(b, i) /\ Process(At(b.buffer, i, b.last))
         /\ overrun' = (overrun \/ MustShift(full))
  /\ UNCHANGED <<wire, sent, losses>>

\* ... and one that has asked for no byte at all: receive returns as soon as
\* there is one, with none, and what the stream holds is thrown away (unless
\* UartEvent waits for room in it: then the same round is repeated for ever).
Discard ==
  /\ rxStream # << >> /\ Room = 0
  /\ rxStream' = << >>
  /\ overrun' = TRUE
  /\ UNCHANGED <<wire, bufferVars, sent, processed, losses>>

-----------------------------------------------------------------------------
Next ==
  \/ \E p \in Packet : SendPacket(p)
  \/ \E n \in 1..Len(wire) : UartData(n)
  \/ UartFlush
  \/ Extract \/ Discard

Spec == Init /\ [][Next]_vars

-----------------------------------------------------------------------------
\* Properties.

Window == [i \in 1..(bufferLastPosition - bufferStartPosition) |->
             rxBuffer[bufferStartPosition + i - 1]]

\* However the bytes are cut into UART events, none is lost, repeated or moved
\* on the way from the wire to the packets, until the buffer overruns.
Conservation ==
  losses = 0 /\ ~overrun => sent = processed \o Window \o rxStream \o wire

\* A packet that reaches an empty buffer in one piece is processed in the same
\* round, whatever was lost or overrun before.
WholePacketIsProcessed ==
  [][Extract /\ Drained =>
       \A p \in Packet :
         (Len(Bytes(p)) <= RxBufferSize /\ Len(Bytes(p)) <= Len(rxStream)
            /\ SubSeq(rxStream, 1, Len(Bytes(p))) = Bytes(p))
           => processed' = processed \o Bytes(p)]_vars

\* "shift buffer to the beginning to make space for new data"
ShiftMakesSpace ==
  [][Extract /\ MustShift(Received(Rewound)) => bufferLastPosition' < RxBufferSize]_vars
=============================================================================
