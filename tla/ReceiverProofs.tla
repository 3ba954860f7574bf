--------------------------- MODULE ReceiverProofs ----------------------------
(***************************************************************************)
(* Proofs about the way of a byte into the firmware: ByteQueue, for every  *)
(* ring size and every set of bytes, and Receiver, for every width of a    *)
(* byte, all identifiers, commands and sessions.                           *)
(***************************************************************************)
EXTENDS ByteQueue, Receiver, SequenceTheorems, NatFacts, TLAPS

-----------------------------------------------------------------------------
(* The receive queue.                                                       *)

\* The index arithmetic of the ring, without the modulus.
LEMMA AfterLemma ==
  ASSUME NEW i \in Slots
  PROVE  /\ After(i) = IF i = QUEUE_MAX_SIZE - 1 THEN 0 ELSE i + 1
         /\ After(i) \in Slots
<1>1. CASE i = QUEUE_MAX_SIZE - 1
  <2>1. QUEUE_MAX_SIZE % QUEUE_MAX_SIZE = 0
    BY SizeAssumption
  <2>2. QED BY <1>1, <2>1, SizeAssumption DEF After, Slots
<1>2. CASE i # QUEUE_MAX_SIZE - 1
  <2>1. i + 1 \in 0 .. QUEUE_MAX_SIZE - 1
    BY <1>2, SizeAssumption DEF Slots
  <2>2. (i + 1) % QUEUE_MAX_SIZE = i + 1
    BY <2>1, SizeAssumption
  <2>3. QED BY <1>2, <2>1, <2>2, SizeAssumption DEF After, Slots
<1>3. QED BY <1>1, <1>2

-----------------------------------------------------------------------------
(* The inductive invariant.  Besides the type invariant it says what the    *)
(* main loop knows at each step of its operations.                          *)

\* A read is in progress only in a transmission and with a byte to read,
\* and the fetched byte stays where it was.
ReadInv ==
  /\ mainLoop \in {"available", "fetched"} => inTransmission /\ ~IsEmpty
  /\ mainLoop = "fetched" => temp = item[head]

\* The handler is off whenever the main loop writes head or tail as a whole.
ResetInv ==
  /\ mainLoop \in {"resetting", "headReset"} => ~(inTransmission /\ attached)
  /\ mainLoop = "headReset" => head = 0

HandshakeInv ==
  /\ mainLoop \in {"storing", "stored"} => ~inTransmission
  /\ CommandFirst

IInv == QueueTypeOK /\ ReadInv /\ ResetInv /\ HandshakeInv

LEMMA InitIInv == QueueInit => IInv
<1> SUFFICES ASSUME QueueInit PROVE IInv
  OBVIOUS
<1>1. 0 \in Slots
  BY SizeAssumption DEF Slots
<1>2. QueueTypeOK
  BY <1>1, BytesAssumption DEF QueueInit, QueueTypeOK
<1>3. ReadInv /\ ResetInv
  BY DEF QueueInit, ReadInv, ResetInv
<1>4. HandshakeInv
  BY DEF QueueInit, HandshakeInv, CommandFirst, IsEmpty
<1>5. QED BY <1>2, <1>3, <1>4 DEF IInv

LEMMA NextIInv == IInv /\ [QueueNext]_queueVars => IInv'
<1> SUFFICES ASSUME IInv, [QueueNext]_queueVars PROVE IInv'
  OBVIOUS
<1> USE DEF IInv, QueueTypeOK, ReadInv, ResetInv, HandshakeInv, CommandFirst
<1>a. /\ After(head) \in Slots
      /\ After(tail) \in Slots
      /\ After(tail) # tail
  BY AfterLemma, SizeAssumption DEF Slots
<1>b. 0 \in Slots
  BY SizeAssumption DEF Slots
<1>1. ASSUME NEW b \in Bytes, ReceiveInterruptEnqueue(b) PROVE IInv'
  BY <1>1, <1>a DEF ReceiveInterruptEnqueue, IsEmpty, IsFull
<1>2. CASE ReadIsAvailable
  BY <1>2 DEF ReadIsAvailable, IsEmpty, ring
<1>3. CASE DequeueFetch
  BY <1>3 DEF DequeueFetch, IsEmpty, ring
<1>4. CASE DequeueAdvance
  BY <1>4, <1>a DEF DequeueAdvance, IsEmpty
<1>5. ASSUME NEW b \in Bytes, HandshakeStore(b) PROVE IInv'
  BY <1>5, <1>a DEF HandshakeStore, IsEmpty, IsFull
<1>6. CASE HandshakeAdvance
  BY <1>6, <1>a DEF HandshakeAdvance, IsEmpty
<1>7. CASE HandshakeEnds
  BY <1>7 DEF HandshakeEnds, IsEmpty, ring
<1>8. CASE ResetReceive
  BY <1>8 DEF ResetReceive, IsEmpty, ring
<1>9. CASE ResetHead
  BY <1>9, <1>b DEF ResetHead, IsEmpty
<1>10. CASE ResetTail
  BY <1>10, <1>b DEF ResetTail, IsEmpty
<1>11. CASE EndListening
  BY <1>11 DEF EndListening, IsEmpty, ring
<1>12. CASE SoftEndListening
  BY <1>12 DEF SoftEndListening, IsEmpty, ring
<1>13. CASE SoftStartListening
  BY <1>13, <1>b DEF SoftStartListening, StartDetached, IsEmpty
<1>14. CASE StartListening
  BY <1>14, <1>b DEF StartListening, StartDetached, IsEmpty
<1>15. CASE UNCHANGED queueVars
  BY <1>15 DEF queueVars, IsEmpty
<1>16. QED
  BY <1>1, <1>2, <1>3, <1>4, <1>5, <1>6, <1>7, <1>8, <1>9, <1>10, <1>11, <1>12, <1>13,
     <1>14, <1>15
     DEF QueueNext, Read, Handshake, Reset, Listening

LEMMA Invariance == QueueSpec => []IInv
BY InitIInv, NextIInv, PTL DEF QueueSpec

\* Every variable keeps its type.
THEOREM QueueTypeCorrect == QueueSpec => []QueueTypeOK
BY Invariance, PTL DEF IInv

\* No interrupt overwrites the slot the main loop is reading.
THEOREM ReaderSafe == QueueSpec => []ReaderSlotStable
<1>1. IInv => ReaderSlotStable
  BY DEF IInv, ReadInv, ReaderSlotStable
<1>2. QED BY Invariance, <1>1, PTL

\* The first byte read in a session is the one that ended its handshake.
THEOREM CommandFirstHolds == QueueSpec => []CommandFirst
<1>1. IInv => CommandFirst
  BY DEF IInv, HandshakeInv
<1>2. QED BY Invariance, <1>1, PTL
-----------------------------------------------------------------------------
(* The ring implements the queue.                                           *)

HeldFacts ==
  /\ Occupancy \in 0 .. QUEUE_MAX_SIZE - 1
  /\ \A i \in 1 .. Occupancy : SlotOf(i) \in Slots /\ SlotOf(i) # tail
  /\ Held \in Seq(Bytes)
  /\ Len(Held) = Occupancy
  /\ \A i \in 1 .. Occupancy : Held[i] = item[SlotOf(i)]

LEMMA HeldLemma == QueueTypeOK => HeldFacts
<1> SUFFICES ASSUME QueueTypeOK PROVE HeldFacts
  OBVIOUS
<1>1. Occupancy \in 0 .. QUEUE_MAX_SIZE - 1
  BY SizeAssumption DEF QueueTypeOK, Slots, Occupancy
<1>2. \A i \in 1 .. Occupancy : SlotOf(i) \in Slots /\ SlotOf(i) # tail
  BY SizeAssumption DEF QueueTypeOK, Slots, Occupancy, SlotOf
<1>3. Held \in [1 .. Occupancy -> Bytes]
  BY <1>2 DEF Held, QueueTypeOK
<1>4. Held \in Seq(Bytes) /\ Len(Held) = Occupancy
  BY <1>1, <1>3, SizeAssumption
<1>5. QED BY <1>1, <1>2, <1>4 DEF Held, HeldFacts

LEMMA HeldEmpty == QueueTypeOK /\ IsEmpty => Held = << >>
BY HeldLemma DEF IsEmpty, Occupancy, QueueTypeOK, Slots, HeldFacts

\* Storing a byte in a ring that is not full appends it.
LEMMA EnqueueAppends ==
  ASSUME QueueTypeOK, QueueTypeOK', NEW b \in Bytes, ~IsFull,
         item' = [item EXCEPT ![tail] = b], tail' = After(tail), head' = head
  PROVE  Held' = Append(Held, b) /\ Occupancy < QUEUE_MAX_SIZE - 1
<1>1. /\ After(tail) = IF tail = QUEUE_MAX_SIZE - 1 THEN 0 ELSE tail + 1
      /\ head # After(tail)
  BY AfterLemma DEF QueueTypeOK, IsFull
<1>2. /\ Occupancy' = Occupancy + 1
      /\ Occupancy < QUEUE_MAX_SIZE - 1
  BY <1>1, SizeAssumption DEF QueueTypeOK, Slots, Occupancy
<1>3. \A i \in 1 .. Occupancy : SlotOf(i)' = SlotOf(i)
  BY DEF SlotOf
<1>4. SlotOf(Occupancy)' = tail
  BY <1>2, SizeAssumption, SMTT(30) DEF QueueTypeOK, Slots, Occupancy, SlotOf
<1>5. HeldFacts'
  BY HeldLemma, PTL
<1> USE DEF HeldFacts
<1>6. /\ Append(Held, b) \in Seq(Bytes)
      /\ Len(Append(Held, b)) = Occupancy + 1
      /\ \A i \in 1 .. Occupancy : Append(Held, b)[i] = item[SlotOf(i)]
      /\ Append(Held, b)[Occupancy + 1] = b
  BY HeldLemma
<1>7. \A i \in 1 .. Occupancy + 1 : Held'[i] = Append(Held, b)[i]
  <2> SUFFICES ASSUME NEW i \in 1 .. Occupancy + 1 PROVE Held'[i] = Append(Held, b)[i]
    OBVIOUS
  <2>1. CASE i \in 1 .. Occupancy
    BY <2>1, <1>2, <1>3, <1>5, <1>6, HeldLemma DEF QueueTypeOK
  <2>2. CASE i = Occupancy + 1
    BY <2>2, <1>2, <1>4, <1>5, <1>6, HeldLemma DEF QueueTypeOK
  <2>3. QED BY <2>1, <2>2, HeldLemma
<1>8. QED BY <1>2, <1>5, <1>6, <1>7, SeqEqual

\* Advancing head over a held byte removes the oldest one.
LEMMA DequeueRemoves ==
  ASSUME QueueTypeOK, QueueTypeOK', ~IsEmpty,
         head' = After(head), item' = item, tail' = tail
  PROVE  Held # << >> /\ Head(Held) = item[head] /\ Held' = Tail(Held)
<1>1. After(head) = IF head = QUEUE_MAX_SIZE - 1 THEN 0 ELSE head + 1
  BY AfterLemma DEF QueueTypeOK
<1>2. /\ Occupancy' = Occupancy - 1
      /\ Occupancy \in 1 .. QUEUE_MAX_SIZE - 1
  BY <1>1, SizeAssumption DEF QueueTypeOK, Slots, Occupancy, IsEmpty
<1>3. \A i \in 1 .. Occupancy - 1 : SlotOf(i)' = SlotOf(i + 1)
  BY <1>1, <1>2, SizeAssumption DEF QueueTypeOK, Slots, SlotOf
<1>4. SlotOf(1) = head
  BY SizeAssumption DEF QueueTypeOK, Slots, SlotOf
<1>5. HeldFacts'
  BY HeldLemma, PTL
<1> USE DEF HeldFacts
<1>6. Held # << >> /\ Head(Held) = item[head]
  BY <1>2, <1>4, HeldLemma
<1>7. /\ Tail(Held) \in Seq(Bytes)
      /\ Len(Tail(Held)) = Occupancy - 1
      /\ \A i \in 1 .. Occupancy - 1 : Tail(Held)[i] = Held[i + 1]
  BY <1>2, <1>6, HeldLemma, HeadTailProperties
<1>8. \A i \in 1 .. Occupancy - 1 : Held'[i] = Tail(Held)[i]
  BY <1>2, <1>3, <1>5, <1>7, HeldLemma
<1>9. QED BY <1>2, <1>5, <1>6, <1>7, <1>8, SeqEqual

LEMMA HeldUnchanged ==
  ASSUME UNCHANGED ring
  PROVE  Held' = Held
BY DEF ring, Held, Occupancy, SlotOf

LEMMA RefineInit == QueueInit => Fifo!Init
<1> SUFFICES ASSUME QueueInit PROVE Fifo!Init
  OBVIOUS
<1>1. IInv
  BY InitIInv
<1>2. Held = << >>
  BY <1>1, HeldEmpty DEF QueueInit, IsEmpty, IInv
<1>3. QED BY <1>2 DEF QueueInit, Fifo!Init, Contents, Fifo!Empty

LEMMA RefineNext == IInv /\ IInv' /\ [QueueNext]_queueVars => [Fifo!Next]_Fifo!fifoVars
<1> SUFFICES ASSUME IInv, IInv', [QueueNext]_queueVars PROVE [Fifo!Next]_Fifo!fifoVars
  OBVIOUS
<1> USE DEF IInv, HeldFacts
<1>1. ASSUME NEW b \in Bytes, ReceiveInterruptEnqueue(b) PROVE Fifo!Put(b)
  <2>1. Contents = Held /\ Contents' = Held'
    BY <1>1 DEF ReceiveInterruptEnqueue, Contents, ResetInv
  <2>2. CASE ~IsFull
    <3>1. Held' = Append(Held, b) /\ Occupancy < QUEUE_MAX_SIZE - 1
      BY <1>1, <2>2, EnqueueAppends DEF ReceiveInterruptEnqueue
    <3>2. QED BY <1>1, <2>1, <2>2, <3>1, HeldLemma DEF ReceiveInterruptEnqueue, Fifo!Put
  <2>3. CASE IsFull
    <3>1. Occupancy = QUEUE_MAX_SIZE - 1
      BY <2>3, AfterLemma, SizeAssumption, SMTT(30) DEF IsFull, QueueTypeOK, Slots, Occupancy
    <3>2. Held' = Held
      BY <1>1, <2>3, HeldUnchanged DEF ReceiveInterruptEnqueue, ring
    <3>3. QED BY <1>1, <2>1, <2>3, <3>1, <3>2, HeldLemma DEF ReceiveInterruptEnqueue, Fifo!Put
  <2>4. QED BY <2>2, <2>3
<1>2. CASE ReadIsAvailable
  <2>1. Held' = Held
    BY <1>2, HeldUnchanged DEF ReadIsAvailable
  <2>2. Contents = Held /\ Contents' = Held'
    BY <1>2 DEF ReadIsAvailable, Contents
  <2>3. CASE IsEmpty
    BY <1>2, <2>1, <2>2, <2>3, HeldEmpty DEF ReadIsAvailable, Fifo!Get, Fifo!Next, Fifo!Empty
  <2>4. CASE ~IsEmpty
    BY <1>2, <2>1, <2>2, <2>4 DEF ReadIsAvailable, Fifo!fifoVars
  <2>5. QED BY <2>3, <2>4
<1>3. CASE DequeueFetch
  BY <1>3, HeldUnchanged DEF DequeueFetch, Contents, Fifo!fifoVars
<1>4. CASE DequeueAdvance
  <2>1. Held # << >> /\ Head(Held) = item[head] /\ Held' = Tail(Held)
    BY <1>4, DequeueRemoves DEF DequeueAdvance, ReadInv
  <2>2. Contents = Held /\ Contents' = Held' /\ temp = item[head]
    BY <1>4 DEF DequeueAdvance, Contents, ReadInv
  <2>3. QED BY <1>4, <2>1, <2>2 DEF DequeueAdvance, Fifo!Get, Fifo!Next
<1>5. ASSUME NEW b \in Bytes, HandshakeStore(b) PROVE UNCHANGED Fifo!fifoVars
  <2>1. IsEmpty /\ ~IsFull
    BY <1>5, AfterLemma, SizeAssumption
       DEF HandshakeStore, HandshakeInv, CommandFirst, IsEmpty, IsFull, QueueTypeOK, Slots
  <2>2. Held = << >> /\ Held' = << >>
    BY <1>5, <2>1, HeldLemma DEF HandshakeStore, IsEmpty, Occupancy, Held, QueueTypeOK, Slots
  <2>3. QED BY <1>5, <2>1, <2>2 DEF HandshakeStore, Contents, Fifo!fifoVars
<1>6. CASE HandshakeAdvance
  <2> DEFINE b == item[tail]
  <2>1. b \in Bytes /\ item' = [item EXCEPT ![tail] = b] /\ IsEmpty /\ ~IsFull
    BY <1>6, AfterLemma, SizeAssumption
       DEF HandshakeAdvance, HandshakeInv, CommandFirst, IsEmpty, IsFull, QueueTypeOK, Slots
  <2>2. Held' = Append(Held, b) /\ Occupancy < QUEUE_MAX_SIZE - 1
    BY <1>6, <2>1, EnqueueAppends DEF HandshakeAdvance
  <2>3. Contents = Held /\ Contents' = Held'
    BY <1>6 DEF HandshakeAdvance, Contents
  <2>4. Fifo!Put(b)
    BY <1>6, <2>2, <2>3, HeldLemma DEF HandshakeAdvance, Fifo!Put
  <2>5. QED BY <2>1, <2>4 DEF Fifo!Next
<1>7. CASE HandshakeEnds
  BY <1>7, HeldUnchanged DEF HandshakeEnds, Contents, Fifo!fifoVars
<1>8. CASE ResetReceive
  BY <1>8 DEF ResetReceive, Contents, Fifo!Clear, Fifo!Next
<1>9. CASE ResetHead
  BY <1>9 DEF ResetHead, Contents, Fifo!fifoVars
<1>10. CASE ResetTail
  <2>1. IsEmpty'
    BY <1>10 DEF ResetTail, ResetInv, IsEmpty
  <2>2. (QueueTypeOK /\ IsEmpty => Held = << >>)'
    BY HeldEmpty, PTL
  <2>3. QED BY <1>10, <2>1, <2>2 DEF ResetTail, Contents, Fifo!fifoVars
<1>11. CASE EndListening
  BY <1>11 DEF EndListening, Contents, Fifo!Clear, Fifo!Next
<1>12. CASE SoftEndListening
  BY <1>12 DEF SoftEndListening, Contents, Fifo!Clear, Fifo!Next
<1>13. ASSUME StartDetached PROVE Fifo!Clear
  <2>1. IsEmpty'
    BY <1>13 DEF StartDetached, IsEmpty
  <2>2. (QueueTypeOK /\ IsEmpty => Held = << >>)'
    BY HeldEmpty, PTL
  <2>3. QED BY <1>13, <2>1, <2>2 DEF StartDetached, Contents, Fifo!Clear
<1>14. CASE UNCHANGED queueVars
  BY <1>14, HeldUnchanged DEF queueVars, ring, Contents, Fifo!fifoVars
<1>15. QED
  BY <1>1, <1>2, <1>3, <1>4, <1>5, <1>6, <1>7, <1>8, <1>9, <1>10, <1>11, <1>12, <1>13, <1>14
     DEF QueueNext, Read, Handshake, Reset, Listening, SoftStartListening, StartListening, Fifo!Next

\* The ring with all its interleavings is a first-in first-out buffer of
\* QUEUE_MAX_SIZE - 1 bytes that drops a byte only when it is full.
THEOREM Refinement == QueueSpec => ImplementsFifo
<1>1. QueueSpec => []IInv
  BY Invariance
<1>2. QED BY <1>1, RefineInit, RefineNext, PTL DEF QueueSpec, ImplementsFifo, Fifo!Spec

-----------------------------------------------------------------------------
(* The receiver.                                                            *)

\* What the assumption says of each constant.
LEMMA Constants ==
  /\ Bits \in Nat \ {0} /\ Capacity \in Nat \ {0} /\ LogEdges \in Nat /\ MaxNoise \in Nat
  /\ IDENTIFIER_1 \in Byte /\ IDENTIFIER_2 \in Byte /\ IDENTIFIER_3 \in Byte
  /\ \A s \in Sessions : s \in Seq(Byte) /\ s # << >>
  /\ \A c \in DOMAIN Arguments : c \in Byte /\ Arguments[c] \in Nat
<1>1. ToSet(Identifiers) = {IDENTIFIER_1, IDENTIFIER_2, IDENTIFIER_3}
  BY DEF ToSet, Identifiers
<1> QED BY <1>1, ReceiverAssumption

LEMMA StreamFacts ==
  ASSUME session \in Sessions \cup {<< >>}
  PROVE  /\ session \in Seq(Byte) /\ Stream \in Seq(Byte) /\ Len(Stream) = 3 + Len(session)
         /\ Stream[1] = IDENTIFIER_1 /\ Stream[2] = IDENTIFIER_2 /\ Stream[3] = IDENTIFIER_3
         /\ \A i \in 1 .. Len(session) : Stream[3 + i] = session[i]
<1>1. session \in Seq(Byte)
  <2>1. << >> \in Seq(Byte)
    BY EmptySeq
  <2> QED BY <2>1, Constants
<1>2. Identifiers \in Seq(Byte) /\ Len(Identifiers) = 3
      /\ Identifiers[1] = IDENTIFIER_1 /\ Identifiers[2] = IDENTIFIER_2
      /\ Identifiers[3] = IDENTIFIER_3
  BY Constants DEF Identifiers
<1>3. Len(session) \in Nat
  BY <1>1, LenProperties
<1>4. /\ Stream \in Seq(Byte) /\ Len(Stream) = 3 + Len(session)
      /\ \A i \in 1 .. 3 + Len(session) :
            Stream[i] = IF i <= 3 THEN Identifiers[i] ELSE session[i - 3]
  <2>1. /\ Identifiers \o session \in Seq(Byte)
        /\ Len(Identifiers \o session) = Len(Identifiers) + Len(session)
        /\ \A i \in 1 .. Len(Identifiers) + Len(session) :
              (Identifiers \o session)[i] = IF i <= Len(Identifiers) THEN Identifiers[i]
                                            ELSE session[i - Len(Identifiers)]
    BY <1>1, <1>2, ConcatProperties
  <2> QED BY <2>1, <1>2, Zenon DEF Stream
<1>5. \A i \in 1 .. Len(session) : Stream[3 + i] = session[i]
  <2> TAKE i \in 1 .. Len(session)
  <2>1. 3 + i \in 1 .. 3 + Len(session) /\ ~(3 + i <= 3) /\ (3 + i) - 3 = i
    BY <1>3
  <2> QED BY <2>1, <1>4
<1> QED BY <1>1, <1>2, <1>3, <1>4, <1>5

\* The bytes not yet sent, and what sending one leaves.
LEMMA OutboxFacts ==
  ASSUME TypeOK
  PROVE  /\ Len(outbox) \in Nat /\ Len(Stream) \in Nat /\ Stream \in Seq(Byte)
         /\ Sent \in 0 .. Len(Stream) /\ Len(outbox) = Len(Stream) - Sent
         /\ outbox = << >> <=> Sent = Len(Stream)
         /\ outbox # << >> => /\ Head(outbox) = Stream[Sent + 1] /\ Head(outbox) \in Byte
                              /\ Sent + 1 \in 1 .. Len(Stream)
                              /\ Tail(outbox) \in Seq(Byte)
                              /\ Len(Tail(outbox)) = Len(outbox) - 1
                              /\ \A i \in 1 .. Len(Tail(outbox)) :
                                    Tail(outbox)[i] = Stream[(Sent + 1) + i]
<1>1. session \in Sessions \cup {<< >>} /\ outbox \in Seq(Byte) /\ Sent \in 0 .. Len(Stream)
      /\ \A i \in 1 .. Len(outbox) : outbox[i] = Stream[Sent + i]
  BY DEF TypeOK
<1>2. Stream \in Seq(Byte) /\ Len(Stream) \in Nat /\ Len(outbox) \in Nat
  BY <1>1, StreamFacts, LenProperties
<1>3. Sent = Len(Stream) - Len(outbox)
  BY DEF Sent
<1>4. Len(outbox) = Len(Stream) - Sent
  BY <1>1, <1>2, <1>3
<1>5. outbox = << >> <=> Len(outbox) = 0
  BY <1>1, EmptySeq
<1>6. ASSUME outbox # << >>
      PROVE  /\ Head(outbox) = Stream[Sent + 1] /\ Head(outbox) \in Byte
             /\ Sent + 1 \in 1 .. Len(Stream)
             /\ Tail(outbox) \in Seq(Byte)
             /\ Len(Tail(outbox)) = Len(outbox) - 1
             /\ \A i \in 1 .. Len(Tail(outbox)) : Tail(outbox)[i] = Stream[(Sent + 1) + i]
  <2>1. 1 \in 1 .. Len(outbox) /\ Sent + 1 \in 1 .. Len(Stream)
    BY <1>1, <1>2, <1>4, <1>5, <1>6
  <2>2. Head(outbox) = outbox[1]
    BY <1>1
  <2>3. /\ Head(outbox) \in Byte /\ Tail(outbox) \in Seq(Byte)
        /\ Len(Tail(outbox)) = Len(outbox) - 1
        /\ \A i \in 1 .. Len(Tail(outbox)) : Tail(outbox)[i] = outbox[i + 1]
    BY <1>1, <1>6, HeadTailProperties
  <2>4. ASSUME NEW i \in 1 .. Len(Tail(outbox))
        PROVE  Tail(outbox)[i] = Stream[(Sent + 1) + i]
    <3>1. i + 1 \in 1 .. Len(outbox) /\ Sent + (i + 1) = (Sent + 1) + i
      BY <1>1, <1>2, <2>3
    <3> QED BY <3>1, <2>3, <1>1
  <2> QED BY <2>1, <2>2, <2>3, <2>4, <1>1
<1> QED BY <1>1, <1>2, <1>4, <1>5, <1>6

-----------------------------------------------------------------------------
(* Types.                                                                   *)

SenderOK ==
  /\ session \in Sessions \cup {<< >>}
  /\ outbox \in Seq(Byte) /\ Sent \in 0 .. Len(Stream)
  /\ \A i \in 1 .. Len(outbox) : outbox[i] = Stream[Sent + i]
  /\ bit \in Bit /\ inPulse \in BOOLEAN /\ paused \in BOOLEAN

ReceiverOK ==
  /\ quiet \in BOOLEAN /\ noise \in 0 .. MaxNoise
  /\ bitState \in {"BIT_STARTED", "BIT_ZERO_END", "BIT_ONE_END"}
  /\ bitMask \in 0 .. (IF pc = "logging" THEN Bits ELSE Bits - 1)
  /\ currentByte \in Byte
  /\ receiveState \in Idents \cup {"IDLE", "IN_TRANSMISSION"}
  /\ queue \in Seq(Byte) /\ Len(queue) <= Capacity
  /\ pc \in {"handler", "logging", "waiting"} /\ logged \in 0 .. LogEdges
  /\ awaited \in Nat /\ exromLow \in BOOLEAN
  /\ received \in Seq(Byte)

LEMMA TypeParts == TypeOK <=> SenderOK /\ ReceiverOK
BY DEF TypeOK, SenderOK, ReceiverOK

\* The sender's types outlive what leaves the sender alone.
LEMMA SenderKept ==
  ASSUME SenderOK, UNCHANGED sender
  PROVE  SenderOK'
BY DEF SenderOK, sender, Sent, Stream

\* A byte may be put into the queue.
LEMMA EnqueueTypes ==
  ASSUME queue \in Seq(Byte), Len(queue) <= Capacity, NEW b \in Byte, Enqueue(b)
  PROVE  queue' \in Seq(Byte) /\ Len(queue') <= Capacity
<1>1. Len(queue) \in Nat /\ Capacity \in Nat
  BY LenProperties, Constants
<1>2. Append(queue, b) \in Seq(Byte) /\ Len(Append(queue, b)) = Len(queue) + 1
  BY AppendProperties
<1> QED BY <1>1, <1>2 DEF Enqueue

\* An interrupt keeps what it writes within its types.
LEMMA InterruptTypes ==
  ASSUME ReceiverOK, NEW gap \in Gaps, MainLoopKeepsUp, ReceiveInterrupt(gap),
         noise' \in 0 .. MaxNoise
  PROVE  ReceiverOK'
<1>1. /\ quiet' \in BOOLEAN /\ pc' = pc /\ receiveState' = receiveState
      /\ awaited' = awaited /\ exromLow' = exromLow /\ received' = received
  BY DEF ReceiveInterrupt, api
<1>2. logged' \in 0 .. LogEdges
  BY Constants DEF ReceiveInterrupt, ReceiverOK, MainLoopKeepsUp
<1>3. /\ bitState' \in {"BIT_STARTED", "BIT_ZERO_END", "BIT_ONE_END"}
      /\ bitMask' \in 0 .. (IF pc = "logging" THEN Bits ELSE Bits - 1)
      /\ currentByte' \in Byte
      /\ queue' \in Seq(Byte) /\ Len(queue') <= Capacity
  <2>1. CASE Ended \/ gap \in {"short", "invalid", "long"}
    BY <2>1, Constants DEF ReceiveInterrupt, ReceiverOK, Byte, Gaps
  <2>2. CASE BitEnd(gap)
    <3>1. CASE InTransmission
      <4> DEFINE byte == IF gap = "one" /\ bitMask < Bits
                         THEN currentByte \cup {bitMask} ELSE currentByte
      <4>1. byte \in Byte
        BY Constants DEF ReceiverOK, Byte, Bit
      <4>2. CASE Shifted = Bits
        <5>1. Enqueue(byte) /\ bitMask' = 0 /\ currentByte' = {}
          BY <2>2, <3>1, <4>2 DEF BitEnd
        <5>2. queue' \in Seq(Byte) /\ Len(queue') <= Capacity
          BY <5>1, <4>1, EnqueueTypes DEF ReceiverOK
        <5> QED BY <5>1, <5>2, <2>2, Constants DEF BitEnd, Byte
      <4>3. CASE Shifted # Bits
        <5>1. bitMask' = Shifted /\ currentByte' = byte /\ queue' = queue
          BY <2>2, <3>1, <4>3 DEF BitEnd
        <5>2. Shifted \in 0 .. Bits - 1
          BY <4>3, Constants DEF Shifted, ReceiverOK
        <5> QED BY <5>1, <5>2, <4>1, <2>2, Constants DEF BitEnd, ReceiverOK
      <4> QED BY <4>2, <4>3
    <3>2. CASE ~InTransmission
      BY <2>2, <3>2 DEF BitEnd, ReceiverOK
    <3> QED BY <3>1, <3>2
  <2> QED BY <2>1, <2>2 DEF ReceiveInterrupt, Gaps
<1> QED BY <1>1, <1>2, <1>3 DEF ReceiverOK

LEMMA TypeInit == Init => TypeOK
<1> SUFFICES ASSUME Init PROVE TypeOK
  OBVIOUS
<1>1. Sent = 3 /\ Len(Stream) = 3
  <2>1. session = << >> /\ Len(outbox) = 0 /\ Len(session) = 0
    BY DEF Init
  <2> QED BY <2>1, StreamFacts DEF Sent
<1>2. << >> \in Seq(Byte) /\ Len(<< >>) = 0
  BY EmptySeq
<1>3. SenderOK
  <2>1. 0 \in Bit
    BY Constants DEF Bit
  <2>2. Sent \in 0 .. Len(Stream)
    BY <1>1
  <2>3. outbox \in Seq(Byte) /\ Len(outbox) = 0 /\ session = << >>
    BY <1>2 DEF Init
  <2>4. \A i \in 1 .. Len(outbox) : outbox[i] = Stream[Sent + i]
    BY <2>3
  <2>5. bit \in Bit /\ inPulse \in BOOLEAN /\ paused \in BOOLEAN
    BY <2>1 DEF Init
  <2> QED BY <2>2, <2>3, <2>4, <2>5, Zenon DEF SenderOK
<1>4. ReceiverOK
  <2>1. 0 \in 0 .. MaxNoise /\ 0 \in 0 .. Bits - 1 /\ 0 \in 0 .. LogEdges
        /\ {} \in Byte /\ 0 <= Capacity
    BY Constants, ReceiverAssumption DEF Byte
  <2>2. queue \in Seq(Byte) /\ received \in Seq(Byte) /\ Len(queue) <= Capacity
    BY <1>2, <2>1 DEF Init
  <2>3. bitMask \in 0 .. (IF pc = "logging" THEN Bits ELSE Bits - 1)
    BY <2>1 DEF Init
  <2>4. currentByte \in Byte
    BY <2>1, Zenon DEF Init
  <2>5. /\ quiet \in BOOLEAN /\ noise \in 0 .. MaxNoise /\ exromLow \in BOOLEAN
        /\ bitState \in {"BIT_STARTED", "BIT_ZERO_END", "BIT_ONE_END"}
        /\ receiveState \in Idents \cup {"IDLE", "IN_TRANSMISSION"}
        /\ pc \in {"handler", "logging", "waiting"} /\ logged \in 0 .. LogEdges
        /\ awaited \in Nat
    BY <2>1 DEF Init
  <2> QED BY <2>2, <2>3, <2>4, <2>5 DEF ReceiverOK
<1> QED BY <1>3, <1>4, TypeParts

\* What is left to send is the end of the session when a session begins, when a byte
\* has been sent and when nothing is left.
LEMMA SenderSteps ==
  ASSUME TypeOK
  PROVE  /\ (\E s \in Sessions : StartTalking(s)) => SenderOK'
         /\ EndBit => SenderOK'
         /\ session' = << >> /\ outbox' = << >> /\ bit' \in Bit /\ inPulse' \in BOOLEAN
            /\ paused' = paused
              => SenderOK'
<1>1. ASSUME NEW s \in Sessions, StartTalking(s)
      PROVE  SenderOK'
  <2>1. session' = s /\ outbox' = Identifiers \o s /\ bit' = bit /\ inPulse' = inPulse
        /\ paused' = FALSE
    BY <1>1 DEF StartTalking
  <2>2. Stream' = outbox'
    BY <2>1 DEF Stream
  <2>3. outbox' \in Seq(Byte)
    BY <2>1, Constants, ConcatProperties DEF Identifiers
  <2>4. Sent' = 0 /\ Len(Stream') \in Nat
    BY <2>2, <2>3, LenProperties DEF Sent
  <2>5. ASSUME NEW i \in 1 .. Len(outbox')
        PROVE  outbox'[i] = Stream'[Sent' + i]
    BY <2>2, <2>3, <2>4, LenProperties
  <2>6. session' \in Sessions \cup {<< >>} /\ Sent' \in 0 .. Len(Stream')
    BY <2>1, <2>4
  <2>7. bit' \in Bit /\ inPulse' \in BOOLEAN /\ paused' \in BOOLEAN
    BY <2>1 DEF TypeOK
  <2> QED BY <2>3, <2>5, <2>6, <2>7, Zenon DEF SenderOK
<1>2. ASSUME EndBit
      PROVE  SenderOK'
  <2>1. session' = session /\ Stream' = Stream /\ inPulse' = FALSE /\ paused' = paused
    BY <1>2 DEF EndBit, Stream
  <2>2. bit' \in Bit
    BY <1>2, Constants, SMTT(20) DEF EndBit, TypeOK, Bit
  <2>3. CASE outbox # << >> /\ outbox' = Tail(outbox)
    <3>1. Sent' = Sent + 1 /\ Sent' \in 0 .. Len(Stream)
      BY <2>1, <2>3, OutboxFacts DEF Sent
    <3> QED BY <3>1, <2>1, <2>2, <2>3, OutboxFacts DEF SenderOK, TypeOK
  <2>4. CASE outbox' = outbox
    BY <2>1, <2>2, <2>4 DEF SenderOK, TypeOK, Sent
  <2>5. CASE outbox = << >>
    <3>1. Tail(outbox) = << >>
      BY <2>5
    <3> QED BY <3>1, <1>2, <2>4, <2>5 DEF EndBit
  <2> QED BY <1>2, <2>3, <2>4, <2>5 DEF EndBit
<1>3. ASSUME session' = << >>, outbox' = << >>, bit' \in Bit, inPulse' \in BOOLEAN,
             paused' = paused
      PROVE  SenderOK'
  <2>1. Stream' = Identifiers
    <3>1. Identifiers \in Seq(Byte)
      BY Constants DEF Identifiers
    <3> QED BY <3>1, <1>3, ConcatEmptySeq DEF Stream
  <2>2. Len(Stream') = 3 /\ Sent' = 3
    BY <2>1, <1>3 DEF Sent, Identifiers
  <2>3. outbox' \in Seq(Byte) /\ Len(outbox') = 0
    BY <1>3, EmptySeq
  <2> QED BY <2>2, <2>3, <1>3 DEF SenderOK, TypeOK
<1> QED BY <1>1, <1>2, <1>3

LEMMA WithBitType == ReceiverOK => WithBit \in Byte
<1> SUFFICES ASSUME ReceiverOK
             PROVE  WithBit \in Byte
  OBVIOUS
<1>1. currentByte \in Byte /\ bitMask \in Nat
  BY Constants DEF ReceiverOK
<1>2. bitMask < Bits => bitMask \in Bit
  BY <1>1, Constants DEF Bit
<1> QED BY <1>1, <1>2 DEF WithBit, Byte

LEMMA TypeStep ==
  ASSUME TypeOK, [Next]_vars
  PROVE  TypeOK'
<1> SUFFICES SenderOK' /\ ReceiverOK'
  BY DEF TypeOK, SenderOK, ReceiverOK
<1>1. SenderOK /\ ReceiverOK
  BY TypeParts
<1>2. << >> \in Seq(Byte) /\ Len(<< >>) = 0
  BY EmptySeq
<1>3. CASE StaleIdentifier
  <2>1. SenderOK'
    BY <1>1, <1>3, SenderKept DEF StaleIdentifier
  <2> QED BY <1>1, <1>3, <2>1, Constants DEF StaleIdentifier, ReceiverOK, line, api, Byte
<1>4. CASE HandshakeBit
  <2>1. SenderOK'
    BY <1>1, <1>4, SenderKept DEF HandshakeBit
  <2>2. WithBit \in Byte
    BY <1>1, WithBitType
  <2>3. Shifted \in 0 .. Bits
    BY <1>1, <1>4, Constants DEF HandshakeBit, ReceiverOK, Shifted
  <2>4. /\ quiet' \in BOOLEAN /\ noise' \in 0 .. MaxNoise
        /\ bitState' \in {"BIT_STARTED", "BIT_ZERO_END", "BIT_ONE_END"}
        /\ logged' \in 0 .. LogEdges /\ awaited' \in Nat /\ received' \in Seq(Byte)
    BY <1>1, <1>4, Constants DEF HandshakeBit, ReceiverOK, line, api
  <2>5. CASE Shifted < Bits /\ bitMask' = Shifted /\ currentByte' = WithBit
             /\ pc' = "waiting" /\ UNCHANGED <<receiveState, queue, exromLow>>
    BY <1>1, <2>1, <2>2, <2>3, <2>4, <2>5, Constants DEF ReceiverOK
  <2>6. CASE /\ receiveState # "IDENTIFIER_3_OK"
             /\ receiveState' = NextIdent(WithBit)
             /\ bitMask' = 0 /\ currentByte' = {}
             /\ pc' = "waiting"
             /\ UNCHANGED <<queue, exromLow>>
    <3>1. NextIdent(WithBit) \in Idents \cup {"IDLE"}
      BY <1>1, <1>4, <2>6 DEF HandshakeBit, ReceiverOK, NextIdent, Idents, InTransmission
    <3> QED BY <1>1, <2>1, <2>4, <2>6, <3>1, Constants DEF ReceiverOK, Byte
  <2>7. CASE /\ Enqueue(WithBit)
             /\ receiveState' = "IN_TRANSMISSION"
             /\ exromLow' = TRUE
             /\ bitMask' = Bits /\ currentByte' = WithBit
             /\ pc' = "logging"
    <3>1. queue' \in Seq(Byte) /\ Len(queue') <= Capacity
      BY <1>1, <2>2, <2>7, EnqueueTypes DEF ReceiverOK
    <3> QED BY <1>1, <2>1, <2>2, <2>4, <2>7, <3>1, Constants DEF ReceiverOK
  <2> QED BY <1>4, <2>5, <2>6, <2>7 DEF HandshakeBit
<1>5. CASE HandshakeDone
  <2>1. SenderOK'
    BY <1>1, <1>5, SenderKept DEF HandshakeDone
  <2> QED BY <1>1, <1>5, <2>1, Constants DEF HandshakeDone, ReceiverOK, line, api, Byte
<1>6. CASE EdgeSeen
  <2>1. SenderOK'
    BY <1>1, <1>6, SenderKept DEF EdgeSeen
  <2> QED BY <1>1, <1>6, <2>1 DEF EdgeSeen, ReceiverOK, line, api, decoder
<1>7. CASE EdgeTimeout
  <2>1. SenderOK'
    BY <1>1, <1>7, SenderKept DEF EdgeTimeout
  <2> QED BY <1>1, <1>7, <2>1, Constants DEF EdgeTimeout, ReceiverOK, line, api, Byte
<1>8. ASSUME EndSession, received' \in Seq(Byte), UNCHANGED <<sender, line, pc, logged>>
      PROVE  SenderOK' /\ ReceiverOK'
  <2>1. SenderOK'
    BY <1>1, <1>8, SenderKept
  <2>2. queue' \in Seq(Byte) /\ Len(queue') <= Capacity
    BY <1>2, <1>8, Constants DEF EndSession
  <2>3. bitMask' \in 0 .. (IF pc = "logging" THEN Bits ELSE Bits - 1)
    BY <1>8, Constants DEF EndSession
  <2> QED BY <1>1, <1>8, <2>1, <2>2, <2>3 DEF EndSession, ReceiverOK, line
<1>9. ASSUME queue # << >>
      PROVE  /\ Append(received, Head(queue)) \in Seq(Byte)
             /\ Tail(queue) \in Seq(Byte) /\ Len(Tail(queue)) <= Capacity
  <2>1. queue \in Seq(Byte) /\ received \in Seq(Byte) /\ Len(queue) <= Capacity
    BY <1>1 DEF ReceiverOK
  <2>2. Head(queue) \in Byte /\ Tail(queue) \in Seq(Byte) /\ Len(Tail(queue)) = Len(queue) - 1
    BY <1>9, <2>1, HeadTailProperties
  <2> QED BY <2>1, <2>2, AppendProperties, LenProperties, Constants
<1>10. CASE ReadCommand
  <2>1. received' \in Seq(Byte)
    BY <1>9, <1>10 DEF ReadCommand
  <2>2. CASE EndSession
    BY <1>8, <1>10, <2>1, <2>2 DEF ReadCommand
  <2>3. CASE /\ Head(queue) \in DOMAIN Arguments \ {END_TALKING}
             /\ awaited' = Arguments[Head(queue)]
             /\ queue' = Tail(queue)
             /\ UNCHANGED <<decoder, receiveState, exromLow>>
    <3>1. SenderOK' /\ UNCHANGED <<line, pc, logged>>
      BY <1>1, <1>10, SenderKept DEF ReadCommand
    <3>2. awaited' \in Nat
      BY <2>3, Constants
    <3> QED BY <1>1, <1>9, <1>10, <2>1, <2>3, <3>1, <3>2
            DEF ReadCommand, ReceiverOK, line, decoder
  <2> QED BY <1>10, <2>2, <2>3 DEF ReadCommand
<1>11. CASE ReadArgument
  <2>1. SenderOK' /\ received' \in Seq(Byte) /\ queue' = Tail(queue)
    BY <1>1, <1>9, <1>11, SenderKept DEF ReadArgument
  <2> QED BY <1>1, <1>9, <1>11, <2>1 DEF ReadArgument, ReceiverOK, line, decoder
<1>12. CASE ArgumentTimeout
  <2>1. received' \in Seq(Byte)
    BY <1>1, <1>12 DEF ArgumentTimeout, ReceiverOK
  <2> QED BY <1>8, <1>12, <2>1 DEF ArgumentTimeout
<1>13. CASE \E s \in Sessions : StartTalking(s)
  <2>1. SenderOK'
    BY <1>13, SenderSteps
  <2> QED BY <1>1, <1>2, <1>13, <2>1, Constants DEF StartTalking, ReceiverOK, decoder
<1>14. CASE StartBit
  <2>1. session' = session /\ outbox' = outbox /\ bit' = bit /\ inPulse' = TRUE
        /\ noise' = noise /\ paused' = paused
    BY <1>14 DEF StartBit
  <2>2. SenderOK'
    BY <1>1, <2>1 DEF SenderOK, Sent, Stream
  <2>3. ReceiverOK'
    BY <1>1, <1>14, <2>1, InterruptTypes DEF StartBit, Gaps, ReceiverOK
  <2> QED BY <2>2, <2>3
<1>15. CASE EndBit
  <2>1. SenderOK'
    BY <1>15, SenderSteps
  <2>2. ReceiverOK'
    BY <1>1, <1>15, InterruptTypes DEF EndBit, Gaps, ReceiverOK
  <2> QED BY <2>1, <2>2
<1>16. CASE Pause
  <2>1. UNCHANGED <<session, outbox, bit, inPulse>> /\ paused' \in BOOLEAN
    BY <1>1, <1>16 DEF Pause, SenderOK
  <2>2. SenderOK'
    BY <1>1, <2>1 DEF SenderOK, Sent, Stream
  <2> QED BY <1>1, <1>16, <2>2 DEF Pause, ReceiverOK, decoder, api
<1>17. CASE Abort
  <2>1. SenderOK'
    <3>1. 0 \in Bit
      BY Constants DEF Bit
    <3> QED BY <3>1, <1>17, SenderSteps DEF Abort
  <2> QED BY <1>1, <1>17, <2>1 DEF Abort, ReceiverOK, decoder, api
<1>18. ASSUME NEW gap \in Gaps, Noise(gap)
       PROVE  SenderOK' /\ ReceiverOK'
  <2>1. session' = << >> /\ outbox' = << >> /\ bit' = bit /\ inPulse' = inPulse
        /\ paused' = paused
    BY <1>18 DEF Noise
  <2>2. SenderOK'
    BY <1>1, <2>1, SenderSteps DEF SenderOK
  <2>3. noise' \in 0 .. MaxNoise
    BY <1>1, <1>18, Constants DEF Noise, ReceiverOK
  <2>4. ReceiverOK'
    BY <1>1, <1>18, <2>3, InterruptTypes DEF Noise
  <2> QED BY <2>2, <2>4
<1>19. CASE UNCHANGED vars
  BY <1>1, <1>19, SenderKept DEF vars, sender, line, decoder, api, ReceiverOK
<1> QED BY <1>3, <1>4, <1>5, <1>6, <1>7, <1>10, <1>11, <1>12, <1>13, <1>14, <1>15, <1>16,
           <1>17, <1>18, <1>19 DEF Next, MainLoop, C64

\* Receiver keeps every value within its kind, for every width of a byte, identifiers,
\* sessions and bounds the assumption allows.
THEOREM TypeCorrect == Spec => []TypeOK
BY TypeInit, TypeStep, PTL DEF Spec

\* The ROM is hidden outside a session, for all sessions, and however long the
\* logging of a handshake takes or a program pauses after it.
THEOREM HiddenHolds == Spec => []HiddenOutsideSession
<1>1. Init => HiddenOutsideSession
  BY DEF Init, HiddenOutsideSession
<1>2. HiddenOutsideSession /\ [Next]_vars => HiddenOutsideSession'
  <2> SUFFICES ASSUME HiddenOutsideSession, [Next]_vars
               PROVE  HiddenOutsideSession'
    OBVIOUS
  <2> USE DEF HiddenOutsideSession, InTransmission
  <2>1. CASE MainLoop
    BY <2>1 DEF MainLoop, StaleIdentifier, HandshakeBit, HandshakeDone, EdgeSeen, EdgeTimeout,
                ReadCommand, ReadArgument, ArgumentTimeout, EndSession, Idents
  <2>2. CASE C64 \/ \E gap \in Gaps : Noise(gap)
    BY <2>2 DEF C64, StartTalking, StartBit, EndBit, Pause, Abort, Noise, ReceiveInterrupt
  <2>3. CASE UNCHANGED vars
    BY <2>3 DEF vars
  <2> QED BY <2>1, <2>2, <2>3 DEF Next
<1> QED BY <1>1, <1>2, PTL DEF Spec

-----------------------------------------------------------------------------
(* Order.  A session that fits the queue, sent to a build whose logging      *)
(* misses no bit, consists of whole commands up to its last byte: `need`     *)
(* counts the arguments that each byte leaves to come.                       *)

CountsArguments(s, need) ==
  /\ need[1] = 0 /\ need[Len(s)] = 0
  /\ \A i \in 1 .. Len(s) - 1 :
       \/ /\ need[i] = 0 /\ s[i] \in DOMAIN Arguments \ {END_TALKING}
          /\ need[i + 1] = Arguments[s[i]]
       \/ need[i] > 0 /\ need[i + 1] = need[i] - 1

Orderly ==
  /\ LogEdges <= 1
  /\ \A s \in Sessions : /\ Len(s) <= Capacity
                         /\ \E need \in [1 .. Len(s) -> Nat] : CountsArguments(s, need)

Needs == CHOOSE need \in [1 .. Len(session) -> Nat] : CountsArguments(session, need)

\* The first n bits of a byte, and the decoder holding those of the byte sent as the
\* i-th.
First(byte, n) == IF n = 0 THEN {} ELSE {b \in byte : b < n}
Holding(i, n) == bitMask = n /\ currentByte = First(Stream[i], n)

StateAfter(i) == IF i = 0 THEN "IDLE" ELSE IF i = 1 THEN "IDENTIFIER_1_OK"
                 ELSE IF i = 2 THEN "IDENTIFIER_2_OK" ELSE "IDENTIFIER_3_OK"

\* Before the first access of a session.
Fresh ==
  /\ Sent = 0 /\ bit = 0 /\ ~inPulse
  /\ receiveState = "IDLE" /\ ~Ended /\ pc = "handler"

\* The main loop has seen every bit that has ended.
Following ==
  /\ Sent \in 0 .. 3 /\ receiveState = StateAfter(Sent) /\ ~quiet
  /\ Holding(Sent + 1, bit)
  /\ inPulse => ~Ended /\ pc \in {"handler", "waiting"}
  /\ ~inPulse => Ended /\ pc = "waiting"

\* It has not seen the last one, bit n of byte i + 1.
BehindAt(i, n) ==
  /\ receiveState = StateAfter(i) /\ Holding(i + 1, n)
  /\ bitState = "BIT_ONE_END" <=> n \in Stream[i + 1]
  /\ n = Bits - 1 => Sent = i + 1 /\ bit = 0
  /\ n # Bits - 1 => Sent = i /\ bit = n + 1

Behind ==
  /\ ~quiet /\ ~inPulse /\ Ended /\ pc = "handler"
  /\ \E i \in 0 .. 3, n \in Bit : BehindAt(i, n)

Handshaking ==
  /\ ~InTransmission /\ received = << >> /\ queue = << >> /\ awaited = 0
  /\ Fresh \/ Following \/ Behind

Reading ==
  /\ InTransmission /\ Sent >= 4
  /\ received \o queue = SubSeq(session, 1, Sent - 3)
  /\ Len(received) < Len(session) => awaited = Needs[Len(received) + 1]
  /\ quiet => Len(outbox) <= 1
  /\ inPulse <=> ~Ended
  /\ pc = "logging" => bit = 0 /\ (inPulse => logged >= 1)
  /\ pc # "logging" => Holding(Sent + 1, bit)

Done ==
  /\ outbox = << >> /\ receiveState = "IDLE" /\ ~Ended /\ pc = "handler"
  /\ queue = << >> /\ received = session

Quiescent ==
  /\ outbox = << >> => bit = 0 /\ ~inPulse
  /\ session = << >> => outbox = << >>

\* (After a pause between the handshake and the first command nothing is said.)
Phases == Quiescent /\ (session # << >> /\ ~paused => Handshaking \/ Reading \/ Done)

-----------------------------------------------------------------------------

\* One bit more.
LEMMA Grow ==
  ASSUME NEW byte \in Byte, NEW n \in Bit
  PROVE  /\ IF n \in byte THEN First(byte, n + 1) = First(byte, n) \cup {n}
                          ELSE First(byte, n + 1) = First(byte, n)
         /\ n = Bits - 1 => First(byte, n + 1) = byte
<1>1. n \in Nat /\ n + 1 # 0 /\ \A b \in byte : b \in 0 .. Bits - 1
  BY Constants DEF Byte, Bit
<1>2. First(byte, n) = {b \in byte : b < n} /\ First(byte, n + 1) = {b \in byte : b < n + 1}
  BY <1>1 DEF First
<1>3. \A b \in byte : b < n + 1 <=> b < n \/ b = n
  BY <1>1
<1>4. n = Bits - 1 => \A b \in byte : b < n + 1
  BY <1>1, Constants
<1> QED BY <1>2, <1>3, <1>4

\* The next bit's number.
LEMMA NextBit ==
  ASSUME NEW n \in Bit
  PROVE  (n + 1) % Bits = IF n = Bits - 1 THEN 0 ELSE n + 1
<1>1. n \in Int /\ n \in 0 .. Bits - 1 /\ Bits \in Nat \ {0}
  BY Constants DEF Bit
<1> QED BY <1>1, ModSmall, ModStep

LEMMA NeedsFacts ==
  ASSUME Orderly, session \in Sessions
  PROVE  /\ Len(session) <= Capacity /\ Len(session) \in Nat \ {0} /\ session \in Seq(Byte)
         /\ CountsArguments(session, Needs)
<1>1. \E need \in [1 .. Len(session) -> Nat] : CountsArguments(session, need)
  BY DEF Orderly
<1>2. CountsArguments(session, Needs)
  BY <1>1 DEF Needs
<1>3. session \in Seq(Byte) /\ session # << >>
  BY Constants
<1> QED BY <1>2, <1>3, EmptySeq DEF Orderly

\* What a step that leaves the sender alone keeps.
LEMMA SenderSame ==
  ASSUME UNCHANGED <<session, outbox, bit, inPulse>>
  PROVE  /\ Stream' = Stream /\ Sent' = Sent /\ Needs' = Needs
         /\ session' = session /\ outbox' = outbox /\ bit' = bit /\ inPulse' = inPulse
         /\ Quiescent => Quiescent'
BY DEF Stream, Sent, Needs, CountsArguments, Quiescent

LEMMA InSession ==
  ASSUME TypeOK, session # << >>
  PROVE  /\ session \in Sessions /\ session \in Seq(Byte) /\ Len(session) \in Nat \ {0}
         /\ Stream \in Seq(Byte) /\ Len(Stream) = 3 + Len(session)
         /\ Sent \in 0 .. 3 + Len(session) /\ Len(outbox) = 3 + Len(session) - Sent
         /\ outbox = << >> <=> Sent = 3 + Len(session)
         /\ outbox # << >> => Head(outbox) = Stream[Sent + 1]
         /\ \A i \in 1 .. 3 + Len(session) : Stream[i] \in Byte
         /\ \A i \in 1 .. Len(session) : Stream[3 + i] = session[i]
<1>1. session \in Sessions
  BY DEF TypeOK
<1>2. session \in Seq(Byte) /\ Len(session) \in Nat \ {0}
  BY <1>1, StreamFacts, EmptySeq
<1>3. Stream \in Seq(Byte) /\ Len(Stream) = 3 + Len(session)
      /\ \A i \in 1 .. Len(session) : Stream[3 + i] = session[i]
  BY <1>1, StreamFacts
<1>4. \A i \in 1 .. 3 + Len(session) : Stream[i] \in Byte
  BY <1>3, ElementOfSeq
<1> QED BY <1>1, <1>2, <1>3, <1>4, OutboxFacts

\* What sending a bit leaves.
LEMMA BitSent ==
  ASSUME TypeOK, Quiescent, EndBit
  PROVE  /\ session # << >> /\ outbox # << >> /\ Sent < 3 + Len(session)
         /\ session' = session /\ Stream' = Stream /\ Needs' = Needs /\ inPulse' = FALSE
         /\ bit = Bits - 1 => bit' = 0 /\ Sent' = Sent + 1 /\ Len(outbox') = Len(outbox) - 1
         /\ bit # Bits - 1 => bit' = bit + 1 /\ Sent' = Sent /\ outbox' = outbox
         /\ Quiescent'
<1>1. session # << >> /\ outbox # << >>
  BY DEF Quiescent, EndBit
<1>2. session' = session /\ Stream' = Stream /\ Needs' = Needs /\ inPulse' = FALSE
  BY DEF EndBit, Stream, Needs, CountsArguments
<1>3. bit \in Bit /\ bit' = (bit + 1) % Bits
      /\ outbox' = IF bit = Bits - 1 THEN Tail(outbox) ELSE outbox
  BY DEF EndBit, TypeOK
<1>4. bit' = IF bit = Bits - 1 THEN 0 ELSE bit + 1
  BY <1>3, NextBit
<1>5. Len(outbox) \in Nat /\ Len(Stream) \in Nat /\ Sent \in 0 .. Len(Stream)
      /\ Len(Tail(outbox)) = Len(outbox) - 1
  BY <1>1, OutboxFacts
<1>6. /\ bit = Bits - 1 => Sent' = Sent + 1 /\ Len(outbox') = Len(outbox) - 1
      /\ bit # Bits - 1 => Sent' = Sent /\ outbox' = outbox
  <2>1. CASE bit = Bits - 1
    <3>1. outbox' = Tail(outbox)
      BY <1>3, <2>1
    <3>2. Sent' = Len(Stream) - Len(outbox') /\ Sent = Len(Stream) - Len(outbox)
      BY <1>2 DEF Sent
    <3>3. Len(outbox') = Len(outbox) - 1
      BY <3>1, <1>5
    <3> QED BY <2>1, <3>2, <3>3, <1>5
  <2>2. CASE bit # Bits - 1
    <3>1. outbox' = outbox
      BY <1>3, <2>2
    <3> QED BY <2>2, <3>1, <1>2 DEF Sent
  <2> QED BY <2>1, <2>2
<1>7. Quiescent'
  BY <1>1, <1>2, <1>3, <1>4 DEF Quiescent
<1>8. Sent < 3 + Len(session)
  BY <1>1, InSession
<1> QED BY <1>1, <1>2, <1>4, <1>6, <1>7, <1>8

\* A session begins afresh, whatever spurious edges came before.
LEMMA Beginning ==
  ASSUME TypeOK, Quiescent, NEW s \in Sessions, StartTalking(s)
  PROVE  Phases'
<1>1. session' = s /\ s # << >> /\ s \in Seq(Byte) /\ outbox' = Identifiers \o s
      /\ bit' = 0 /\ inPulse' = FALSE
  BY Constants DEF StartTalking, Quiescent
<1>2. Identifiers \in Seq(Byte) /\ Len(Identifiers) = 3
  BY Constants DEF Identifiers
<1>3. Stream' = outbox' /\ Len(outbox') = 3 + Len(s) /\ Len(s) \in Nat
  <2>1. Stream' = outbox'
    BY <1>1 DEF Stream
  <2>2. Len(Identifiers \o s) = Len(Identifiers) + Len(s)
    BY <1>1, <1>2, ConcatProperties
  <2>3. Len(s) \in Nat
    BY <1>1, LenProperties
  <2> QED BY <2>1, <2>2, <2>3, <1>1, <1>2
<1>4. Sent' = 0 /\ outbox' # << >>
  BY <1>3 DEF Sent
<1>5. Quiescent'
  BY <1>1, <1>4 DEF Quiescent
<1>6. Handshaking'
  <2>1. /\ received' = << >> /\ queue' = << >> /\ awaited' = 0 /\ pc' = "handler"
        /\ ~InTransmission /\ bitState' = bitState /\ receiveState' = receiveState
        /\ ~Ended /\ receiveState \notin Idents
    BY DEF StartTalking, Settled, decoder
  <2>2. receiveState = "IDLE"
    BY <2>1 DEF TypeOK, InTransmission
  <2> QED BY <1>1, <1>4, <2>1, <2>2 DEF Handshaking, Fresh, InTransmission, Ended
<1> QED BY <1>5, <1>6 DEF Phases

\* After the C64 went away, or a spurious edge, nothing is said of a session.
LEMMA Leaving ==
  ASSUME Quiescent, Abort \/ \E gap \in Gaps : Noise(gap)
  PROVE  Phases'
<1>1. session' = << >> /\ outbox' = << >> /\ bit' = 0 /\ inPulse' = FALSE
  BY DEF Abort, Noise, Quiescent
<1> QED BY <1>1 DEF Phases, Quiescent

\* A pause before the first command: nothing is said of the session any more.
LEMMA LongPause ==
  ASSUME Quiescent, session # << >>, Pause, outbox = session
  PROVE  Phases'
<1>1. UNCHANGED <<session, outbox, bit, inPulse>> /\ paused' = TRUE
  BY DEF Pause
<1> QED BY <1>1, SenderSame DEF Phases

LEMMA DoneStep ==
  ASSUME TypeOK, Quiescent, Done, Next
  PROVE  Phases'
<1>1. ASSUME UNCHANGED <<session, outbox, bit, inPulse>>, Done'
      PROVE  Phases'
  BY <1>1, SenderSame DEF Phases
<1>2. CASE MainLoop
  <2>1. ArgumentTimeout
    BY <1>2 DEF MainLoop, Done, StaleIdentifier, HandshakeBit, HandshakeDone, EdgeSeen,
                EdgeTimeout, ReadCommand, ReadArgument, Idents, InTransmission
  <2> QED BY <1>1, <2>1 DEF ArgumentTimeout, EndSession, Done, sender, Ended
<1>3. CASE \E s \in Sessions : StartTalking(s)
  BY <1>3, Beginning
<1>4. CASE StartBit \/ EndBit
  BY <1>4 DEF Done, StartBit, EndBit, Quiescent
<1>5. CASE Pause
  BY <1>1, <1>5 DEF Pause, Done, sender, decoder, api, Ended
<1>6. CASE Abort \/ \E gap \in Gaps : Noise(gap)
  BY <1>6, Leaving
<1> QED BY <1>2, <1>3, <1>4, <1>5, <1>6 DEF Next, C64

LEMMA FreshStep ==
  ASSUME TypeOK, session # << >>, Quiescent, Handshaking, Fresh, Next
  PROVE  Phases'
<1>1. outbox # << >> /\ Sent + 1 = 1 /\ Sent \in 0 .. 3
  BY InSession DEF Fresh
<1>2. ~MainLoop
  BY DEF MainLoop, Fresh, Handshaking, StaleIdentifier, HandshakeBit, HandshakeDone, EdgeSeen,
         EdgeTimeout, ReadCommand, ReadArgument, ArgumentTimeout, Idents
<1>3. CASE StartBit
  <2>1. UNCHANGED <<session, outbox, bit>> /\ inPulse' = TRUE /\ ReceiveInterrupt("long")
    BY <1>3 DEF StartBit
  <2>2. Sent' = Sent /\ Stream' = Stream
    BY <2>1 DEF Sent, Stream
  <2>3. /\ bitState' = bitState /\ bitMask' = 0 /\ currentByte' = {} /\ queue' = queue
        /\ quiet' = FALSE /\ receiveState' = receiveState /\ pc' = pc
        /\ received' = received /\ awaited' = awaited
    BY <2>1 DEF ReceiveInterrupt, Fresh, api
  <2>4. Following'
    BY <1>1, <2>1, <2>2, <2>3 DEF Following, Fresh, Holding, First, StateAfter, Ended
  <2>5. Quiescent'
    BY <1>1, <2>1 DEF Quiescent
  <2> QED BY <2>3, <2>4, <2>5 DEF Phases, Handshaking, InTransmission
<1>4. CASE Pause
  <2>1. UNCHANGED <<session, outbox, bit, inPulse>> /\ UNCHANGED <<bitState, receiveState, pc,
                    received, queue, awaited>>
    BY <1>4 DEF Pause, sender, decoder, api
  <2>2. Fresh'
    BY <2>1, SenderSame DEF Fresh, Ended
  <2> QED BY <2>1, <2>2, SenderSame DEF Phases, Handshaking, InTransmission
<1>5. CASE EndBit
  BY <1>5 DEF EndBit, Fresh
<1>6. CASE \E s \in Sessions : StartTalking(s)
  BY <1>6, Beginning
<1>7. CASE Abort \/ \E gap \in Gaps : Noise(gap)
  BY <1>7, Leaving
<1> QED BY <1>2, <1>3, <1>4, <1>5, <1>6, <1>7 DEF Next, C64

LEMMA FollowingStep ==
  ASSUME TypeOK, Orderly, session # << >>, Quiescent, Handshaking, Following, Next
  PROVE  Phases'
<1>1. outbox # << >> /\ Sent + 1 \in 1 .. 3 + Len(session) /\ Sent \in Nat
  BY InSession DEF Following
<1>2. CASE MainLoop
  <2>1. EdgeSeen
    BY <1>2 DEF MainLoop, Following, Handshaking, StaleIdentifier, HandshakeBit, HandshakeDone,
                EdgeTimeout, ReadCommand, ReadArgument, ArgumentTimeout, Idents
  <2>2. UNCHANGED <<session, outbox, bit, inPulse, quiet, bitState, bitMask, currentByte,
                    receiveState, queue, awaited, received>> /\ pc' = "handler"
    BY <2>1 DEF EdgeSeen, sender, line, decoder, api
  <2>3. inPulse
    BY <2>1 DEF EdgeSeen, Following, Handshaking
  <2>4. Following'
    BY <2>2, <2>3, SenderSame DEF Following, Holding, Ended
  <2> QED BY <2>2, <2>4, SenderSame DEF Phases, Handshaking, InTransmission
<1>3. CASE StartBit
  <2>1. UNCHANGED <<session, outbox, bit>> /\ inPulse' = TRUE /\ ReceiveInterrupt("long")
        /\ ~inPulse
    BY <1>3 DEF StartBit
  <2>2. Sent' = Sent /\ Stream' = Stream
    BY <2>1 DEF Sent, Stream
  <2>3. /\ bitState' = "BIT_STARTED" /\ bitMask' = bitMask /\ currentByte' = currentByte
        /\ queue' = queue /\ quiet' = FALSE /\ receiveState' = receiveState /\ pc' = pc
        /\ received' = received /\ awaited' = awaited
    BY <2>1 DEF ReceiveInterrupt, Following, api
  <2>4. Following'
    BY <2>1, <2>2, <2>3 DEF Following, Holding, Ended
  <2>5. Quiescent'
    BY <1>1, <2>1 DEF Quiescent
  <2> QED BY <2>3, <2>4, <2>5 DEF Phases, Handshaking, InTransmission
<1>4. CASE EndBit
  <2> DEFINE gap == IF bit \in Head(outbox) THEN "one" ELSE "zero"
  <2>1. /\ inPulse /\ MainLoopKeepsUp /\ ReceiveInterrupt(gap)
        /\ ~Ended /\ ~InTransmission /\ pc = "handler"
    BY <1>4 DEF EndBit, MainLoopKeepsUp, Following, Handshaking
  <2>2. BitEnd(gap)
    BY <2>1 DEF ReceiveInterrupt
  <2>3. /\ bitState' = IF gap = "one" THEN "BIT_ONE_END" ELSE "BIT_ZERO_END"
        /\ bitMask' = bitMask /\ currentByte' = currentByte /\ queue' = queue
    BY <2>1, <2>2 DEF BitEnd
  <2>4. /\ quiet' = FALSE /\ receiveState' = receiveState /\ pc' = pc
        /\ received' = received /\ awaited' = awaited
    BY <2>1 DEF ReceiveInterrupt, api
  <2>5. Head(outbox) = Stream[Sent + 1] /\ bit \in Bit
    BY <1>1, InSession DEF TypeOK
  <2>6. Behind'
    <3> PICK i \in 0 .. 3, n \in Bit : i = Sent /\ n = bit
      BY <2>5 DEF Following
    <3>1. Stream' = Stream /\ Holding(i + 1, n) /\ receiveState = StateAfter(i)
      BY <1>4, BitSent DEF Following
    <3>2. (bitState' = "BIT_ONE_END") <=> n \in Stream[i + 1]
      BY <2>3, <2>5
    <3>3. /\ n = Bits - 1 => Sent' = i + 1 /\ bit' = 0
          /\ n # Bits - 1 => Sent' = i /\ bit' = n + 1
          /\ inPulse' = FALSE
      BY <1>4, BitSent
    <3>4. BehindAt(i, n)'
      BY <2>3, <2>4, <3>1, <3>2, <3>3 DEF BehindAt, Holding
    <3> QED BY <2>1, <2>3, <2>4, <3>1, <3>3, <3>4 DEF Behind, Ended
  <2> QED BY <1>4, <2>1, <2>3, <2>4, <2>6, BitSent DEF Phases, Handshaking, InTransmission
<1>5. CASE Pause
  <2>1. outbox # <<END_TALKING>> \/ Len(session) <= 1
    <3>1. Len(outbox) = 3 + Len(session) - Sent /\ Sent \in 0 .. 3 /\ Len(session) \in Nat
      BY InSession DEF Following
    <3>2. outbox = <<END_TALKING>> => Len(outbox) = 1
      OBVIOUS
    <3> QED BY <3>1, <3>2
  <2>2. outbox = session
    BY <1>1, <1>5, <2>1, InSession DEF Pause
  <2> QED BY <1>5, <2>2, LongPause
<1>6. CASE \E s \in Sessions : StartTalking(s)
  BY <1>6, Beginning
<1>7. CASE Abort \/ \E gap \in Gaps : Noise(gap)
  BY <1>7, Leaving
<1> QED BY <1>2, <1>3, <1>4, <1>5, <1>6, <1>7 DEF Next, C64

LEMMA Regroup ==
  \A r, q, t \in Seq(Byte) : r \o (q \o t) = (r \o q) \o t
BY ConcatAssociative

\* One byte more into the queue, and one out of it.
LEMMA OneMore ==
  ASSUME NEW s \in Seq(Byte), NEW r \in Seq(Byte), NEW q \in Seq(Byte),
         NEW m \in 0 .. Len(s), r \o q = SubSeq(s, 1, m)
  PROVE  /\ Len(r) \in Nat /\ Len(q) \in Nat /\ Len(r) + Len(q) = m
         /\ m < Len(s) => r \o Append(q, s[m + 1]) = SubSeq(s, 1, m + 1)
         /\ q # << >> => /\ Append(r, Head(q)) \o Tail(q) = r \o q
                         /\ Len(Append(r, Head(q))) = Len(r) + 1
                         /\ Len(r) + 1 <= m /\ Head(q) = s[Len(r) + 1]
<1>1. Len(r) \in Nat /\ Len(q) \in Nat /\ Len(s) \in Nat
  BY LenProperties
<1>2. \A i \in 1 .. m : s[i] \in Byte
  BY <1>1, ElementOfSeq
<1>3. Len(SubSeq(s, 1, m)) = m /\ \A i \in 1 .. m : SubSeq(s, 1, m)[i] = s[i]
  <2>1. /\ Len(SubSeq(s, 1, m)) = IF 1 <= m THEN m - 1 + 1 ELSE 0
        /\ \A i \in 1 .. m - 1 + 1 : SubSeq(s, 1, m)[i] = s[1 + i - 1]
    BY <1>1, <1>2, SubSeqProperties
  <2> QED BY <1>1, <2>1
<1>4. /\ Len(r \o q) = Len(r) + Len(q)
      /\ \A i \in 1 .. Len(r) + Len(q) :
            (r \o q)[i] = IF i <= Len(r) THEN r[i] ELSE q[i - Len(r)]
  BY ConcatProperties
<1>5. Len(r) + Len(q) = m
  BY <1>3, <1>4
<1>6. ASSUME m < Len(s)
      PROVE  r \o Append(q, s[m + 1]) = SubSeq(s, 1, m + 1)
  <2>1. m + 1 \in 1 .. Len(s) /\ 1 \in 1 .. Len(s) /\ m + 1 \in 1 .. Len(s)
        /\ (m + 1) - 1 = m
    BY <1>1, <1>6
  <2>2. s[m + 1] \in Byte /\ <<s[m + 1]>> \in Seq(Byte)
    BY <2>1, ElementOfSeq
  <2>3. SubSeq(s, 1, m + 1) = SubSeq(s, 1, (m + 1) - 1) \o <<s[m + 1]>>
    BY <2>1, SubSeqRecursiveSecond
  <2>4. Append(q, s[m + 1]) = q \o <<s[m + 1]>>
    BY <2>2, AppendIsConcat
  <2>5. r \o (q \o <<s[m + 1]>>) = (r \o q) \o <<s[m + 1]>>
    BY <2>2, Regroup
  <2> QED BY <2>1, <2>3, <2>4, <2>5
<1>7. ASSUME q # << >>
      PROVE  /\ Append(r, Head(q)) \o Tail(q) = r \o q
             /\ Len(Append(r, Head(q))) = Len(r) + 1
             /\ Len(r) + 1 <= m /\ Head(q) = s[Len(r) + 1]
  <2>1. Head(q) \in Byte /\ Tail(q) \in Seq(Byte) /\ Head(q) = q[1] /\ Len(q) > 0
        /\ <<Head(q)>> \in Seq(Byte)
    BY <1>1, <1>7, HeadTailProperties, EmptySeq
  <2>2. Append(r, Head(q)) = r \o <<Head(q)>> /\ Len(Append(r, Head(q))) = Len(r) + 1
    BY <2>1, AppendIsConcat, AppendProperties
  <2>3. q = <<Head(q)>> \o Tail(q)
    <3>1. SubSeq(q, 1, Len(q)) = <<q[1]>> \o SubSeq(q, 1 + 1, Len(q))
      BY <2>1, <1>1, SubSeqRecursiveFirst
    <3>2. SubSeq(q, 1, Len(q)) = q
      BY SubSeqFull
    <3>3. Tail(q) = SubSeq(q, 1 + 1, Len(q))
      <4>1. Tail(SubSeq(q, 1, Len(q))) = SubSeq(q, 1 + 1, Len(q))
        BY <2>1, <1>1, HeadTailOfSubSeq
      <4> QED BY <4>1, <3>2
    <3> QED BY <2>1, <3>1, <3>2, <3>3
  <2>4. (r \o <<Head(q)>>) \o Tail(q) = r \o (<<Head(q)>> \o Tail(q))
    BY <2>1, Regroup
  <2>5. Len(r) + 1 <= m /\ Len(r) + 1 \in 1 .. m
    BY <1>1, <1>5, <2>1
  <2>6. (r \o q)[Len(r) + 1] = q[1] /\ SubSeq(s, 1, m)[Len(r) + 1] = s[Len(r) + 1]
    BY <1>1, <1>3, <1>4, <1>5, <2>5
  <2> QED BY <2>1, <2>2, <2>3, <2>4, <2>5, <2>6
<1> QED BY <1>1, <1>5, <1>6, <1>7

LEMMA BehindStep ==
  ASSUME TypeOK, Orderly, session # << >>, Quiescent, Handshaking, Behind, Next
  PROVE  Phases'
<1>1. PICK i \in 0 .. 3, n \in Bit : BehindAt(i, n)
  BY DEF Behind
<1>2. ~MainLoopKeepsUp
  BY DEF MainLoopKeepsUp, Behind, Handshaking
<1>3. CASE MainLoop
  <2>1. HandshakeBit
    BY <1>3 DEF MainLoop, Behind, Handshaking, StaleIdentifier, HandshakeDone, EdgeSeen,
                EdgeTimeout, ReadCommand, ReadArgument, ArgumentTimeout
  <2>2. UNCHANGED <<session, outbox, bit, inPulse, bitState, quiet, awaited, received>>
    BY <2>1 DEF HandshakeBit, sender, line, api
  <2>3. /\ Stream' = Stream /\ Sent' = Sent /\ Needs' = Needs /\ session' = session
        /\ outbox' = outbox /\ bit' = bit /\ inPulse' = inPulse /\ Quiescent'
    BY <2>2, SenderSame
  <2>4. Stream[i + 1] \in Byte /\ n \in 0 .. Bits - 1 /\ Bits \in Nat \ {0}
    <3>1. i + 1 \in 1 .. 3 + Len(session)
      BY InSession
    <3> QED BY <3>1, InSession, Constants DEF Bit
  <2>5. bitMask = n /\ currentByte = First(Stream[i + 1], n) /\ n < Bits
    BY <1>1, <2>4 DEF BehindAt, Holding
  <2>6. Shifted = n + 1
    BY <2>5 DEF Shifted
  <2>7. WithBit = First(Stream[i + 1], n + 1)
    <3>1. IF n \in Stream[i + 1]
          THEN First(Stream[i + 1], n + 1) = First(Stream[i + 1], n) \cup {n}
          ELSE First(Stream[i + 1], n + 1) = First(Stream[i + 1], n)
      BY <2>4, Grow
    <3>2. bitState = "BIT_ONE_END" <=> n \in Stream[i + 1]
      BY <1>1 DEF BehindAt
    <3>3. WithBit = IF n \in Stream[i + 1] THEN First(Stream[i + 1], n) \cup {n}
                                           ELSE First(Stream[i + 1], n)
      BY <2>5, <3>2 DEF WithBit
    <3> QED BY <3>1, <3>3, Zenon
  <2>8. CASE /\ Shifted < Bits
             /\ bitMask' = Shifted /\ currentByte' = WithBit
             /\ pc' = "waiting"
             /\ UNCHANGED <<receiveState, queue, exromLow>>
    <3>1. Sent = i /\ bit = n + 1
      BY <1>1, <2>4, <2>6, <2>8 DEF BehindAt
    <3>2. Following'
      BY <1>1, <2>2, <2>3, <2>6, <2>7, <2>8, <3>1 DEF Following, Behind, BehindAt, Holding, Ended
    <3> QED BY <2>2, <2>3, <2>8, <3>2 DEF Phases, Handshaking, InTransmission
  <2>9. CASE /\ Shifted = Bits /\ receiveState # "IDENTIFIER_3_OK"
             /\ receiveState' = NextIdent(WithBit)
             /\ bitMask' = 0 /\ currentByte' = {}
             /\ pc' = "waiting"
             /\ UNCHANGED <<queue, exromLow>>
    <3>1. Sent = i + 1 /\ bit = 0 /\ n = Bits - 1
      BY <1>1, <2>4, <2>6, <2>9 DEF BehindAt
    <3>2. i \in 0 .. 2 /\ WithBit = Stream[i + 1]
      BY <1>1, <2>4, <2>7, <2>9, <3>1, Grow DEF BehindAt, StateAfter
    <3>3. receiveState' = StateAfter(i + 1)
      BY <1>1, <2>9, <3>2, InSession, StreamFacts DEF BehindAt, StateAfter, NextIdent
    <3>4. Following'
      BY <2>2, <2>3, <2>9, <3>1, <3>2, <3>3 DEF Following, Behind, Holding, First, Ended
    <3>5. ~InTransmission'
      BY <3>2, <3>3 DEF StateAfter, InTransmission
    <3> QED BY <2>2, <2>3, <2>9, <3>4, <3>5 DEF Phases, Handshaking, InTransmission
  <2>10. CASE /\ Shifted = Bits /\ receiveState = "IDENTIFIER_3_OK"
              /\ Enqueue(WithBit)
              /\ receiveState' = "IN_TRANSMISSION"
              /\ exromLow' = TRUE
              /\ bitMask' = Bits /\ currentByte' = WithBit
              /\ pc' = "logging"
    <3>1. Sent = i + 1 /\ bit = 0 /\ n = Bits - 1
      BY <1>1, <2>4, <2>6, <2>10 DEF BehindAt
    <3>2. i = 3 /\ WithBit = Stream[4]
      BY <1>1, <2>4, <2>7, <2>10, <3>1, Grow DEF BehindAt, StateAfter
    <3>3. Stream[4] = session[1] /\ session[1] \in Byte /\ Len(session) \in Nat \ {0}
      <4>1. 1 \in 1 .. Len(session) /\ 4 \in 1 .. 3 + Len(session) /\ 3 + 1 = 4
        BY InSession
      <4> QED BY <4>1, InSession
    <3>4. queue = << >> /\ received = << >> /\ awaited = 0
      BY DEF Handshaking
    <3>5. queue' = <<session[1]>>
      <4>1. Len(queue) = 0 /\ 0 < Capacity
        BY <3>4, Constants
      <4> QED BY <2>10, <3>2, <3>3, <3>4, <4>1 DEF Enqueue
    <3>6. received' \o queue' = SubSeq(session', 1, Sent' - 3)
      <4>1. Sent' - 3 = 1
        BY <2>3, <3>1, <3>2
      <4>2. SubSeq(session, 1, 1) = <<session[1]>>
        <5>1. session \in Seq(Byte) /\ 1 \in 1 .. Len(session) /\ 1 \in 1 .. 1
          BY <3>3, InSession
        <5>2. SubSeq(session, 1, 1) = <<session[1]>> \o SubSeq(session, 1 + 1, 1)
          BY <5>1, SubSeqRecursiveFirst
        <5>3. SubSeq(session, 1 + 1, 1) = << >>
          BY SubSeqEmpty
        <5>4. <<session[1]>> \in Seq(Byte)
          BY <3>3
        <5> QED BY <5>2, <5>3, <5>4, ConcatEmptySeq
      <4>3. << >> \o <<session[1]>> = <<session[1]>>
        BY <3>3
      <4> QED BY <2>2, <3>4, <3>5, <4>1, <4>2, <4>3
    <3>7. awaited' = Needs'[Len(received') + 1]
      <4>1. Len(received') + 1 = 1
        BY <2>2, <3>4
      <4>2. Needs[1] = 0
        BY InSession, NeedsFacts DEF CountsArguments
      <4> QED BY <2>2, <2>3, <3>4, <4>1, <4>2
    <3>8. Reading'
      BY <2>2, <2>3, <2>10, <3>1, <3>2, <3>6, <3>7 DEF Reading, Behind, InTransmission, Ended
    <3> QED BY <2>3, <3>8 DEF Phases
  <2> QED BY <2>1, <2>8, <2>9, <2>10 DEF HandshakeBit
<1>4. CASE StartBit \/ EndBit \/ Pause
  BY <1>2, <1>4 DEF StartBit, EndBit, Pause
<1>5. CASE \E s \in Sessions : StartTalking(s)
  BY <1>5, Beginning
<1>6. CASE Abort \/ \E gap \in Gaps : Noise(gap)
  BY <1>6, Leaving
<1> QED BY <1>3, <1>4, <1>5, <1>6 DEF Next, C64

\* What is read and held of a session still being read.
LEMMA ReadingFacts ==
  ASSUME TypeOK, Orderly, session # << >>, Reading
  PROVE  /\ received \in Seq(Byte) /\ queue \in Seq(Byte)
         /\ Sent - 3 \in 1 .. Len(session) /\ Len(session) \in Nat \ {0}
         /\ Len(received) \in Nat /\ Len(queue) \in Nat
         /\ Len(received) + Len(queue) = Sent - 3
         /\ Len(session) <= Capacity /\ CountsArguments(session, Needs)
<1>1. received \in Seq(Byte) /\ queue \in Seq(Byte)
  BY DEF TypeOK
<1>2. Sent - 3 \in 1 .. Len(session) /\ Len(session) \in Nat \ {0}
  BY InSession DEF Reading
<1>3. Len(received) \in Nat /\ Len(queue) \in Nat /\ Len(received) + Len(queue) = Sent - 3
  <2>1. PICK m \in 0 .. Len(session) : m = Sent - 3
    BY <1>2
  <2>2. received \o queue = SubSeq(session, 1, m) /\ session \in Seq(Byte)
    BY <2>1, InSession DEF Reading
  <2>3. Len(received) \in Nat /\ Len(queue) \in Nat /\ Len(received) + Len(queue) = m
    BY <1>1, <2>2, OneMore
  <2> QED BY <2>1, <2>3
<1> QED BY <1>1, <1>2, <1>3, InSession, NeedsFacts

\* A byte is read.
LEMMA ByteRead ==
  ASSUME TypeOK, Orderly, session # << >>, Reading, queue # << >>,
         received' = Append(received, Head(queue))
  PROVE  /\ received' \o Tail(queue) = received \o queue
         /\ Len(received') = Len(received) + 1
         /\ Len(received) + 1 <= Sent - 3 /\ Len(received) < Len(session)
         /\ Head(queue) = session[Len(received) + 1]
         /\ awaited = Needs[Len(received) + 1]
<1>1. session \in Seq(Byte) /\ Sent - 3 \in 0 .. Len(session)
  BY InSession, ReadingFacts
<1>2. /\ received' \o Tail(queue) = received \o queue
      /\ Len(received') = Len(received) + 1
      /\ Len(received) + 1 <= Sent - 3
      /\ Head(queue) = session[Len(received) + 1]
  <2>1. PICK m \in 0 .. Len(session) : m = Sent - 3
    BY <1>1
  <2>2. received \o queue = SubSeq(session, 1, m)
    BY <2>1 DEF Reading
  <2>3. received \in Seq(Byte) /\ queue \in Seq(Byte)
    BY ReadingFacts
  <2>4. /\ Append(received, Head(queue)) \o Tail(queue) = received \o queue
        /\ Len(Append(received, Head(queue))) = Len(received) + 1
        /\ Len(received) + 1 <= m /\ Head(queue) = session[Len(received) + 1]
    BY <1>1, <2>2, <2>3, OneMore
  <2> QED BY <2>1, <2>4, Zenon
<1>3. Len(received) < Len(session)
  BY <1>2, ReadingFacts
<1> QED BY <1>2, <1>3 DEF Reading

\* All of a session is read when it ends.
LEMMA ReadWhole ==
  ASSUME NEW s \in Seq(Byte), NEW r \in Seq(Byte), NEW q \in Seq(Byte),
         NEW m \in 0 .. Len(s), r \o q = SubSeq(s, 1, m), Len(r) = Len(s)
  PROVE  r = s /\ m = Len(s)
<1>1. Len(r) \in Nat /\ Len(q) \in Nat /\ Len(r) + Len(q) = m /\ Len(s) \in Nat
  BY OneMore, LenProperties
<1>2. m = Len(s) /\ Len(q) = 0
  BY <1>1
<1>3. q = << >>
  BY <1>2, EmptySeq
<1>4. r \o q = r
  BY <1>3, ConcatEmptySeq
<1>5. SubSeq(s, 1, m) = s
  BY <1>2, SubSeqFull
<1> QED BY <1>2, <1>4, <1>5

\* A byte is read out of the queue and the session goes on.
LEMMA ReadOn ==
  ASSUME TypeOK, Orderly, session # << >>, Quiescent, Reading, pc = "handler", queue # << >>,
         received' = Append(received, Head(queue)), queue' = Tail(queue),
         Len(received) + 1 < Len(session) => awaited' = Needs[Len(received) + 2],
         UNCHANGED <<sender, line, decoder, receiveState, pc>>
  PROVE  Phases'
<1>1. /\ UNCHANGED <<session, outbox, bit, inPulse>> /\ quiet' = quiet
      /\ bitState' = bitState /\ bitMask' = bitMask /\ currentByte' = currentByte
      /\ receiveState' = receiveState /\ pc' = pc
  BY DEF sender, line, decoder
<1>2. /\ Stream' = Stream /\ Sent' = Sent /\ Needs' = Needs /\ Quiescent'
  BY <1>1, SenderSame
<1>3. received' \o queue' = SubSeq(session', 1, Sent' - 3)
  BY <1>1, <1>2, ByteRead DEF Reading
<1>4. Len(received') < Len(session') => awaited' = Needs'[Len(received') + 1]
  <2>1. Len(received') = Len(received) + 1 /\ Len(received) \in Nat
        /\ (Len(received) + 1) + 1 = Len(received) + 2
    BY ByteRead, ReadingFacts
  <2> QED BY <1>1, <1>2, <2>1
<1>5. Reading'
  BY <1>1, <1>2, <1>3, <1>4 DEF Reading, InTransmission, Ended, Holding
<1> QED BY <1>2, <1>5 DEF Phases

\* A session that ends has been read to its end.
LEMMA SessionEnds ==
  ASSUME TypeOK, session # << >>, Quiescent, EndSession, pc = "handler",
         UNCHANGED <<sender, pc>>, outbox = << >>, received' = session
  PROVE  Phases'
<1>1. UNCHANGED <<session, outbox, bit, inPulse>> /\ pc' = pc
  BY DEF sender
<1>2. Quiescent'
  BY <1>1, SenderSame
<1>3. Done'
  BY <1>1 DEF Done, EndSession, Ended
<1> QED BY <1>2, <1>3 DEF Phases

LEMMA CommandStep ==
  ASSUME TypeOK, Orderly, session # << >>, Quiescent, Reading, ReadCommand
  PROVE  Phases'
<1>1. /\ pc = "handler" /\ awaited = 0 /\ queue # << >>
      /\ received' = Append(received, Head(queue))
      /\ UNCHANGED <<sender, line, pc>>
  BY DEF ReadCommand
<1>2. /\ Len(received') = Len(received) + 1 /\ Len(received) + 1 <= Sent - 3
      /\ Len(received) < Len(session) /\ Head(queue) = session[Len(received) + 1]
      /\ Needs[Len(received) + 1] = 0
      /\ received' \o Tail(queue) = received \o queue
  BY <1>1, ByteRead
<1>3. Len(received) \in Nat /\ Len(session) \in Nat /\ Sent - 3 \in 1 .. Len(session)
      /\ CountsArguments(session, Needs)
  BY ReadingFacts
<1>4. ASSUME Len(received) + 1 < Len(session)
      PROVE  /\ session[Len(received) + 1] \in DOMAIN Arguments \ {END_TALKING}
             /\ Needs[Len(received) + 2] = Arguments[session[Len(received) + 1]]
  <2>1. Len(received) + 1 \in 1 .. Len(session) - 1
        /\ (Len(received) + 1) + 1 = Len(received) + 2
    BY <1>3, <1>4
  <2>2. ~(Needs[Len(received) + 1] > 0)
    BY <1>2
  <2> QED BY <1>2, <1>3, <2>1, <2>2 DEF CountsArguments
<1>5. CASE /\ Head(queue) \in DOMAIN Arguments \ {END_TALKING}
           /\ awaited' = Arguments[Head(queue)]
           /\ queue' = Tail(queue)
           /\ UNCHANGED <<decoder, receiveState, exromLow>>
  BY <1>1, <1>2, <1>4, <1>5, ReadOn
<1>6. CASE Head(queue) \notin DOMAIN Arguments \ {END_TALKING} /\ EndSession
  <2>1. Len(received) + 1 = Len(session) /\ Len(received') = Len(session)
    BY <1>2, <1>3, <1>4, <1>6
  <2>2. received' = session /\ Sent - 3 = Len(session)
    <3>1. received' \in Seq(Byte) /\ Tail(queue) \in Seq(Byte)
      BY <1>1, ReadingFacts, HeadTailProperties, AppendProperties
    <3>2. received' \o Tail(queue) = SubSeq(session, 1, Sent - 3)
      BY <1>2 DEF Reading
    <3>3. Sent - 3 \in 0 .. Len(session) /\ session \in Seq(Byte)
      BY <1>3, InSession
    <3> QED BY <2>1, <3>1, <3>2, <3>3, ReadWhole
  <2>3. outbox = << >>
    BY <1>3, <2>2, InSession
  <2> QED BY <1>1, <1>6, <2>2, <2>3, SessionEnds
<1> QED BY <1>5, <1>6 DEF ReadCommand

LEMMA ArgumentStep ==
  ASSUME TypeOK, Orderly, session # << >>, Quiescent, Reading, ReadArgument
  PROVE  Phases'
<1>1. /\ pc = "handler" /\ awaited > 0 /\ queue # << >> /\ queue' = Tail(queue)
      /\ received' = Append(received, Head(queue)) /\ awaited' = awaited - 1
      /\ UNCHANGED <<sender, line, decoder, receiveState, pc>>
  BY DEF ReadArgument
<1>2. /\ Len(received) < Len(session) /\ Needs[Len(received) + 1] = awaited
  BY <1>1, ByteRead
<1>3. Len(received) \in Nat /\ Len(session) \in Nat /\ CountsArguments(session, Needs)
      /\ awaited \in Nat
  BY ReadingFacts DEF TypeOK
<1>4. ASSUME Len(received) + 1 < Len(session)
      PROVE  awaited' = Needs[Len(received) + 2]
  <2>1. Len(received) + 1 \in 1 .. Len(session) - 1
        /\ (Len(received) + 1) + 1 = Len(received) + 2
    BY <1>3, <1>4
  <2>2. Needs[Len(received) + 1] # 0
    BY <1>1, <1>2, <1>3
  <2> QED BY <1>1, <1>2, <1>3, <2>1, <2>2 DEF CountsArguments
<1> QED BY <1>1, <1>4, ReadOn

\* Only what the last command still lacks can be waited for in vain.
LEMMA TimeoutStep ==
  ASSUME TypeOK, Orderly, session # << >>, Quiescent, Reading, ArgumentTimeout
  PROVE  Phases'
<1>1. /\ pc = "handler" /\ awaited > 0 /\ queue = << >> /\ quiet /\ EndSession
      /\ UNCHANGED <<sender, pc>> /\ received' = received
  BY DEF ArgumentTimeout
<1>2. Len(outbox) <= 1 /\ Len(outbox) = 3 + Len(session) - Sent
  BY <1>1, InSession DEF Reading
<1>3. Len(queue) = 0 /\ Len(received) = Sent - 3 /\ Len(received) \in Nat
      /\ Len(session) \in Nat \ {0} /\ Sent - 3 \in 1 .. Len(session) /\ Sent \in Int
      /\ CountsArguments(session, Needs)
  <2>1. Len(queue) = 0
    BY <1>1
  <2> QED BY <2>1, ReadingFacts, InSession
<1>4. Len(received) = Len(session)
  <2> SUFFICES ASSUME Len(received) # Len(session) PROVE FALSE
    OBVIOUS
  <2>1. Len(received) + 1 = Len(session)
    BY <1>2, <1>3
  <2>2. awaited = Needs[Len(session)]
    BY <1>3, <2>1 DEF Reading
  <2> QED BY <1>1, <1>3, <2>2 DEF CountsArguments
<1>5. received = session /\ Sent - 3 = Len(session)
  <2>1. PICK m \in 0 .. Len(session) : m = Sent - 3
    BY <1>3
  <2>2. received \o queue = SubSeq(session, 1, m)
    BY <2>1 DEF Reading
  <2>3. session \in Seq(Byte) /\ received \in Seq(Byte) /\ queue \in Seq(Byte)
    BY ReadingFacts, InSession
  <2>4. received = session /\ m = Len(session)
    BY <1>4, <2>2, <2>3, ReadWhole
  <2> QED BY <2>1, <2>4, Zenon
<1>6. outbox = << >>
  BY <1>3, <1>5, InSession
<1> QED BY <1>1, <1>5, <1>6, SessionEnds

\* A bit is decoded in the interrupt, and a whole byte put into the queue.
LEMMA BitStep ==
  ASSUME TypeOK, Orderly, session # << >>, Quiescent, Reading, EndBit
  PROVE  Phases'
<1> DEFINE gap == IF bit \in Head(outbox) THEN "one" ELSE "zero"
<1>1. inPulse /\ MainLoopKeepsUp /\ ReceiveInterrupt(gap) /\ ~Ended /\ InTransmission
  BY DEF EndBit, Reading
<1>2. pc # "logging"
  BY <1>1, Constants DEF Reading, MainLoopKeepsUp, Orderly, TypeOK
<1>3. /\ session' = session /\ Stream' = Stream /\ Needs' = Needs /\ inPulse' = FALSE
      /\ bit = Bits - 1 => bit' = 0 /\ Sent' = Sent + 1
      /\ bit # Bits - 1 => bit' = bit + 1 /\ Sent' = Sent
      /\ Quiescent' /\ outbox # << >> /\ Sent < 3 + Len(session)
  BY BitSent
<1>4. /\ quiet' = FALSE /\ receiveState' = receiveState /\ pc' = pc
      /\ received' = received /\ awaited' = awaited /\ BitEnd(gap)
  BY <1>1 DEF ReceiveInterrupt, api
<1>5. /\ Head(outbox) = Stream[Sent + 1] /\ Stream[Sent + 1] \in Byte
      /\ bit \in 0 .. Bits - 1 /\ bit \in Bit /\ Bits \in Nat \ {0} /\ Sent \in Nat
      /\ Sent >= 4
  <2>1. Sent + 1 \in 1 .. 3 + Len(session)
    BY <1>3, InSession
  <2>2. Head(outbox) = Stream[Sent + 1] /\ Stream[Sent + 1] \in Byte /\ Sent \in Nat
    BY <2>1, <1>3, InSession
  <2> QED BY <2>2, Constants DEF TypeOK, Bit, Reading
<1>6. bitMask = bit /\ currentByte = First(Stream[Sent + 1], bit)
  BY <1>2 DEF Reading, Holding
<1> DEFINE byte == IF gap = "one" /\ bitMask < Bits
                   THEN currentByte \cup {bitMask} ELSE currentByte
<1>7. byte = First(Stream[Sent + 1], bit + 1) /\ Shifted = bit + 1
  <2>1. gap = "one" <=> bit \in Stream[Sent + 1]
    BY <1>5
  <2>2. bitMask < Bits /\ Shifted = bit + 1
    BY <1>5, <1>6 DEF Shifted
  <2>3. byte = IF bit \in Stream[Sent + 1] THEN First(Stream[Sent + 1], bit) \cup {bit}
                                           ELSE First(Stream[Sent + 1], bit)
    <3> HIDE DEF gap
    <3> QED BY <1>6, <2>1, <2>2
  <2>4. IF bit \in Stream[Sent + 1]
        THEN First(Stream[Sent + 1], bit + 1) = First(Stream[Sent + 1], bit) \cup {bit}
        ELSE First(Stream[Sent + 1], bit + 1) = First(Stream[Sent + 1], bit)
    BY <1>5, Grow
  <2> HIDE DEF byte, gap
  <2> QED BY <2>2, <2>3, <2>4, Zenon
<1>8. Ended'
  BY <1>4 DEF BitEnd, Ended
<1>9. CASE bit # Bits - 1
  <2>1. bitMask' = bit + 1 /\ currentByte' = byte /\ queue' = queue
    BY <1>1, <1>4, <1>5, <1>7, <1>9 DEF BitEnd
  <2>2. Holding(Sent + 1, bit)'
    BY <1>3, <1>7, <1>9, <2>1 DEF Holding
  <2>3. Reading'
    BY <1>1, <1>2, <1>3, <1>4, <1>8, <1>9, <2>1, <2>2 DEF Reading, InTransmission
  <2> QED BY <1>3, <2>3 DEF Phases
<1>10. CASE bit = Bits - 1
  <2>1. Enqueue(byte) /\ bitMask' = 0 /\ currentByte' = {}
    BY <1>1, <1>4, <1>5, <1>7, <1>10 DEF BitEnd
  <2>2. byte = Stream[Sent + 1]
    BY <1>5, <1>7, <1>10, Grow
  <2>3. Stream[Sent + 1] = session[(Sent - 3) + 1]
    <3>1. (Sent - 3) + 1 \in 1 .. Len(session) /\ 3 + ((Sent - 3) + 1) = Sent + 1
      BY <1>3, <1>5, ReadingFacts
    <3> QED BY <3>1, InSession
  <2>4. queue' = Append(queue, session[(Sent - 3) + 1])
    <3>1. Len(queue) < Capacity
      BY <1>3, <1>5, ReadingFacts, Constants
    <3> QED BY <2>1, <2>2, <2>3, <3>1 DEF Enqueue
  <2>5. received' \o queue' = SubSeq(session', 1, Sent' - 3)
    <3>1. Sent - 3 \in 0 .. Len(session) /\ Sent - 3 < Len(session)
          /\ Sent' - 3 = (Sent - 3) + 1
      BY <1>3, <1>5, <1>10, ReadingFacts
    <3>2. received \o Append(queue, session[(Sent - 3) + 1]) = SubSeq(session, 1, (Sent - 3) + 1)
      <4>1. PICK m \in 0 .. Len(session) : m = Sent - 3
        BY <3>1
      <4>2. received \o queue = SubSeq(session, 1, m) /\ m < Len(session)
        BY <3>1, <4>1 DEF Reading
      <4>3. session \in Seq(Byte) /\ received \in Seq(Byte) /\ queue \in Seq(Byte)
        BY ReadingFacts, InSession
      <4>4. received \o Append(queue, session[m + 1]) = SubSeq(session, 1, m + 1)
        BY <4>2, <4>3, OneMore
      <4> QED BY <4>1, <4>4
    <3> QED BY <1>3, <1>4, <2>4, <3>1, <3>2
  <2>6. Holding(Sent + 1, bit)'
    BY <1>3, <1>10, <2>1 DEF Holding, First
  <2>7. Reading'
    BY <1>1, <1>2, <1>3, <1>4, <1>5, <1>8, <1>10, <2>5, <2>6 DEF Reading, InTransmission
  <2> QED BY <1>3, <2>7 DEF Phases
<1> QED BY <1>9, <1>10

LEMMA ReadingStep ==
  ASSUME TypeOK, Orderly, session # << >>, Quiescent, Reading, Next
  PROVE  Phases'
<1>1. CASE StaleIdentifier \/ HandshakeBit \/ EdgeTimeout
  BY <1>1 DEF StaleIdentifier, HandshakeBit, EdgeTimeout, Reading, Idents, InTransmission
<1>2. CASE HandshakeDone
  <2>1. /\ UNCHANGED <<session, outbox, bit, inPulse, bitState, quiet, receiveState, queue,
                      received, awaited>>
        /\ pc = "logging" /\ pc' = "waiting" /\ bitMask' = 0 /\ currentByte' = {}
    BY <1>2 DEF HandshakeDone, sender, line, api
  <2>2. Reading'
    BY <2>1, SenderSame DEF Reading, InTransmission, Ended, Holding, First
  <2> QED BY <2>1, <2>2, SenderSame DEF Phases
<1>3. CASE EdgeSeen
  <2>1. /\ UNCHANGED <<session, outbox, bit, inPulse, bitState, bitMask, currentByte, quiet,
                      receiveState, queue, received, awaited>>
        /\ pc = "waiting" /\ pc' = "handler"
    BY <1>3 DEF EdgeSeen, sender, line, decoder, api
  <2>2. Reading'
    BY <2>1, SenderSame DEF Reading, InTransmission, Ended, Holding
  <2> QED BY <2>1, <2>2, SenderSame DEF Phases
<1>4. CASE ReadCommand \/ ReadArgument \/ ArgumentTimeout
  BY <1>4, CommandStep, ArgumentStep, TimeoutStep
<1>5. CASE StartBit
  <2>1. /\ UNCHANGED <<session, outbox, bit>> /\ inPulse' = TRUE /\ ~inPulse /\ outbox # << >>
        /\ ReceiveInterrupt("long")
    BY <1>5 DEF StartBit
  <2>2. Sent' = Sent /\ Stream' = Stream /\ Needs' = Needs
    BY <2>1 DEF Sent, Stream, Needs, CountsArguments
  <2>3. /\ bitState' = "BIT_STARTED" /\ bitMask' = bitMask /\ currentByte' = currentByte
        /\ queue' = queue /\ quiet' = FALSE /\ receiveState' = receiveState /\ pc' = pc
        /\ received' = received /\ awaited' = awaited
        /\ logged' = IF pc = "logging" THEN logged + 1 ELSE 0
    BY <2>1 DEF ReceiveInterrupt, Reading, api
  <2>4. pc = "logging" => logged' >= 1
    BY <2>3, Constants DEF TypeOK
  <2>5. Reading'
    BY <2>1, <2>2, <2>3, <2>4 DEF Reading, InTransmission, Ended, Holding
  <2>6. Quiescent'
    BY <2>1 DEF Quiescent
  <2> QED BY <2>5, <2>6 DEF Phases
<1>6. CASE EndBit
  BY <1>6, BitStep
<1>7. CASE Pause
  <2>1. /\ UNCHANGED <<session, outbox, bit, inPulse, bitState, bitMask, currentByte,
                      receiveState, queue, received, awaited, pc, logged>>
    BY <1>7 DEF Pause, sender, decoder, api
  <2>2. CASE outbox = session
    BY <1>7, <2>2, LongPause
  <2>3. CASE outbox = << >> \/ outbox = <<END_TALKING>>
    <3>1. Len(outbox) <= 1
      <4>1. CASE outbox = << >>
        BY <4>1, EmptySeq
      <4>2. CASE outbox = <<END_TALKING>>
        BY <4>2
      <4> QED BY <2>3, <4>1, <4>2
    <3>2. Reading'
      BY <2>1, <3>1, SenderSame DEF Reading, InTransmission, Ended, Holding
    <3> QED BY <2>1, <3>2, SenderSame DEF Phases
  <2> QED BY <1>7, <2>2, <2>3 DEF Pause
<1>8. CASE \E s \in Sessions : StartTalking(s)
  BY <1>8 DEF StartTalking, Reading
<1>9. CASE Abort \/ \E gap \in Gaps : Noise(gap)
  BY <1>9, Leaving
<1> QED BY <1>1, <1>2, <1>3, <1>4, <1>5, <1>6, <1>7, <1>8, <1>9 DEF Next, MainLoop, C64

LEMMA PhasesStep ==
  ASSUME TypeOK, Orderly, Phases, [Next]_vars
  PROVE  Phases'
<1>1. Quiescent
  BY DEF Phases
<1>2. CASE UNCHANGED vars
  <2>1. UNCHANGED <<session, outbox, bit, inPulse, paused, quiet, bitState, bitMask,
                    currentByte, receiveState, queue, pc, logged, awaited, received>>
    BY <1>2 DEF vars, sender, line, decoder, api
  <2> QED BY <2>1 DEF Phases, Quiescent, Handshaking, Fresh, Following, Behind, BehindAt,
                     Reading, Done, InTransmission, Ended, Holding, Sent, Stream, Needs,
                     CountsArguments
<1>3. CASE Next /\ session = << >>
  <2>1. ~StartBit /\ ~EndBit
    BY <1>1, <1>3 DEF StartBit, EndBit, Quiescent
  <2>2. CASE MainLoop \/ Pause
    <3>1. UNCHANGED <<session, outbox, bit, inPulse>>
      BY <2>2 DEF MainLoop, StaleIdentifier, HandshakeBit, HandshakeDone, EdgeSeen, EdgeTimeout,
                  ReadCommand, ReadArgument, ArgumentTimeout, Pause, sender
    <3> QED BY <1>1, <1>3, <3>1, SenderSame DEF Phases
  <2>3. CASE \E s \in Sessions : StartTalking(s)
    BY <1>1, <2>3, Beginning
  <2>4. CASE Abort \/ \E gap \in Gaps : Noise(gap)
    BY <1>1, <2>4, Leaving
  <2> QED BY <1>3, <2>1, <2>2, <2>3, <2>4 DEF Next, C64
<1>4. CASE Next /\ session # << >> /\ paused
  <2>1. CASE MainLoop \/ StartBit \/ EndBit \/ Pause
    <3>1. session' = session /\ paused' = TRUE
      BY <1>4, <2>1 DEF MainLoop, StaleIdentifier, HandshakeBit, HandshakeDone, EdgeSeen,
                        EdgeTimeout, ReadCommand, ReadArgument, ArgumentTimeout, StartBit, EndBit,
                        Pause, sender
    <3>2. Quiescent'
      <4>1. CASE UNCHANGED <<session, outbox, bit, inPulse>>
        BY <1>1, <4>1, SenderSame
      <4>2. CASE EndBit
        BY <1>1, <4>2, BitSent
      <4>3. CASE StartBit
        BY <1>1, <4>3 DEF StartBit, Quiescent
      <4>4. MainLoop \/ Pause => UNCHANGED <<session, outbox, bit, inPulse>>
        BY DEF MainLoop, StaleIdentifier, HandshakeBit, HandshakeDone, EdgeSeen, EdgeTimeout,
               ReadCommand, ReadArgument, ArgumentTimeout, Pause, sender
      <4> QED BY <2>1, <4>1, <4>2, <4>3, <4>4
    <3> QED BY <3>1, <3>2 DEF Phases
  <2>2. CASE \E s \in Sessions : StartTalking(s)
    BY <1>1, <2>2, Beginning
  <2>3. CASE Abort \/ \E gap \in Gaps : Noise(gap)
    BY <1>1, <2>3, Leaving
  <2> QED BY <1>4, <2>1, <2>2, <2>3 DEF Next, C64
<1>5. CASE Next /\ session # << >> /\ ~paused
  BY <1>1, <1>5, FreshStep, FollowingStep, BehindStep, ReadingStep, DoneStep
     DEF Phases, Handshaking
<1> QED BY <1>2, <1>3, <1>4, <1>5

LEMMA PhasesOrder == ASSUME TypeOK, Orderly, Phases PROVE InOrder
<1> SUFFICES ASSUME session # << >>, ~paused
             PROVE  IsPrefix(received \o queue, session)
  BY DEF InOrder
<1>1. session \in Seq(Byte) /\ Len(session) \in Nat
  BY InSession
<1>2. \A m \in 0 .. Len(session) : IsPrefix(SubSeq(session, 1, m), session)
  <2> TAKE m \in 0 .. Len(session)
  <2>1. Len(SubSeq(session, 1, m)) = m /\ SubSeq(session, 1, m) \in Seq(Byte)
    <3>1. \A i \in 1 .. m : session[i] \in Byte
      BY <1>1, ElementOfSeq
    <3> QED BY <1>1, <3>1, SubSeqProperties
  <2>2. SubSeq(SubSeq(session, 1, m), 1, m) = SubSeq(session, 1, m)
    BY <2>1, SubSeqFull
  <2> QED BY <2>1, <2>2 DEF IsPrefix
<1>3. CASE Handshaking
  <2>1. received \o queue = << >>
    BY <1>3, ConcatEmptySeq, EmptySeq DEF Handshaking
  <2>2. SubSeq(session, 1, 0) = << >>
    BY SubSeqEmpty
  <2>3. 0 \in 0 .. Len(session)
    BY <1>1
  <2> QED BY <1>2, <2>1, <2>2, <2>3, Zenon
<1>4. CASE Reading
  BY <1>2, <1>4, ReadingFacts DEF Reading
<1>5. CASE Done
  <2>1. received \o queue = session
    BY <1>1, <1>5, ConcatEmptySeq DEF Done
  <2>2. SubSeq(session, 1, Len(session)) = session
    BY <1>1, SubSeqFull
  <2>3. Len(session) \in 0 .. Len(session)
    BY <1>1
  <2> QED BY <1>2, <2>1, <2>2, <2>3, Zenon
<1> QED BY <1>3, <1>4, <1>5 DEF Phases

\* What the firmware reads of a session is what the C64 sent, in order: for all bytes,
\* identifiers and sessions of whole commands that fit the queue, after any spurious
\* edges and any abandoned sessions; of a session whose program worked for long before
\* its first command the property says nothing.
THEOREM InOrderHolds ==
  ASSUME Orderly
  PROVE  Spec => []InOrder
<1>1. Init => Phases
  BY DEF Init, Phases, Quiescent
<1>2. TypeOK /\ Phases /\ [Next]_vars => Phases'
  BY PhasesStep
<1>3. TypeOK /\ Phases => InOrder
  BY PhasesOrder
<1> QED BY <1>1, <1>2, <1>3, TypeCorrect, PTL DEF Spec
==============================================================================
