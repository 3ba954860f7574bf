----------------------------- MODULE ByteQueue -----------------------------
(***************************************************************************)
(* The receive queue (Arduino/libraries/ByteQueue) in the two contexts     *)
(* that touch it: the /IO2 interrupt handler, which enqueues the bytes of  *)
(* a running transmission, and the main loop, which reads them, enqueues   *)
(* the first command byte of a session and resets the queue.               *)
(*                                                                         *)
(* An AVR interrupt handler is not interrupted, so the handler's work on   *)
(* the queue is one step.  The main loop is interrupted between any two    *)
(* accesses to the volatile head and tail, so each of its operations is    *)
(* split into one step per such access; mainLoop names the step it is at.  *)
(***************************************************************************)
EXTENDS Integers, Sequences

CONSTANTS QUEUE_MAX_SIZE,  \* slots of the ring; one of them stays free
          Bytes            \* the byte values

ASSUME SizeAssumption == QUEUE_MAX_SIZE \in Nat /\ QUEUE_MAX_SIZE >= 2
ASSUME BytesAssumption == Bytes \subseteq Nat /\ 0 \in Bytes

VARIABLES item,            \* the ring
          head, tail,      \* next slot to read, next slot to write
          inTransmission,  \* receiveState == IN_TRANSMISSION
          attached,        \* the /IO2 interrupt is attached
          mainLoop,        \* where the main loop is
          temp,            \* Dequeue's local variable
          lastRead,        \* what the last Read() returned
          overrun          \* history: a byte was discarded since the last Reset

queueVars == <<item, head, tail, inTransmission, attached, mainLoop, temp, lastRead, overrun>>
ring == <<item, head, tail>>

Slots == 0 .. QUEUE_MAX_SIZE - 1

\* Mutant of After: the index never wraps.
AfterWithoutWrap(i) == i + 1

\* The index after i: every use is (i+1)%QUEUE_MAX_SIZE.
After(i) == (i + 1) % QUEUE_MAX_SIZE

IsEmpty == head = tail

\* Mutants of IsFull: the queue never counts as full; it counts as full one
\* byte too early.
NeverFull == FALSE
FullTooEarly == head = After(After(tail)) \/ head = After(tail)

IsFull == head = After(tail)

QueueInit ==
  /\ item = [i \in Slots |-> 0]
  /\ head = 0
  /\ tail = 0
  /\ inTransmission = FALSE
  /\ attached = TRUE
  /\ mainLoop = "idle"
  /\ temp = 0
  /\ lastRead = -1
  /\ overrun = FALSE

-----------------------------------------------------------------------------
(* The interrupt handler, when a bit completes a byte of a transmission.   *)

ReceiveInterruptEnqueue(b) ==
  /\ attached
  /\ inTransmission
  /\ \/ /\ ~IsFull
        /\ item' = [item EXCEPT ![tail] = b]
        /\ tail' = After(tail)
        /\ UNCHANGED overrun
     \/ /\ IsFull
        /\ overrun' = TRUE
        /\ UNCHANGED <<item, tail>>
  /\ UNCHANGED <<head, inTransmission, attached, mainLoop, temp, lastRead>>

-----------------------------------------------------------------------------
(* CartInterface::Read: IsAvailable, then Dequeue.                          *)

ReadIsAvailable ==
  /\ mainLoop = "idle"
  /\ IF IsEmpty
     THEN lastRead' = -1 /\ UNCHANGED mainLoop
     ELSE mainLoop' = "available" /\ UNCHANGED lastRead
  /\ UNCHANGED <<ring, inTransmission, attached, temp, overrun>>

DequeueFetch ==
  /\ mainLoop = "available"
  /\ temp' = item[head]
  /\ mainLoop' = "fetched"
  /\ UNCHANGED <<ring, inTransmission, attached, lastRead, overrun>>

DequeueAdvance ==
  /\ mainLoop = "fetched"
  /\ head' = After(head)
  /\ lastRead' = temp
  /\ mainLoop' = "idle"
  /\ UNCHANGED <<item, tail, inTransmission, attached, temp, overrun>>

-----------------------------------------------------------------------------
(* The end of the handshake in ReceiveHandler: the first command byte is   *)
(* enqueued by the main loop, and only then does the handler take over.    *)

HandshakeStore(b) ==
  /\ mainLoop = "idle"
  /\ attached
  /\ ~inTransmission
  /\ IF IsFull
     THEN mainLoop' = "stored" /\ overrun' = TRUE /\ UNCHANGED item
     ELSE mainLoop' = "storing" /\ item' = [item EXCEPT ![tail] = b] /\ UNCHANGED overrun
  /\ UNCHANGED <<head, tail, inTransmission, attached, temp, lastRead>>

HandshakeAdvance ==
  /\ mainLoop = "storing"
  /\ tail' = After(tail)
  /\ mainLoop' = "stored"
  /\ UNCHANGED <<item, head, inTransmission, attached, temp, lastRead, overrun>>

HandshakeEnds ==
  /\ mainLoop = "stored"
  /\ inTransmission' = TRUE
  /\ mainLoop' = "idle"
  /\ UNCHANGED <<ring, attached, temp, lastRead, overrun>>

-----------------------------------------------------------------------------
(* Reset.  ResetReceive leaves the transmission before it clears the       *)
(* queue; SoftEndListening keeps receiveState and detaches the interrupt   *)
(* first.  With the interrupt detached nobody interleaves, so the starting *)
(* operations are one step.                                                *)

\* Mutant of ResetReceive: the queue keeps what was not consumed.
ResetReceiveKeepingQueue ==
  /\ mainLoop = "idle"
  /\ inTransmission' = FALSE
  /\ overrun' = FALSE
  /\ UNCHANGED <<ring, attached, mainLoop, temp, lastRead>>

ResetReceive ==
  /\ mainLoop = "idle"
  /\ inTransmission' = FALSE
  /\ overrun' = FALSE
  /\ mainLoop' = "resetting"
  /\ UNCHANGED <<ring, attached, temp, lastRead>>

\* EndListening and EnterBasicSafeMode: detach, then ResetReceive.
EndListening ==
  /\ mainLoop = "idle"
  /\ attached' = FALSE
  /\ inTransmission' = FALSE
  /\ overrun' = FALSE
  /\ mainLoop' = "resetting"
  /\ UNCHANGED <<ring, temp, lastRead>>

SoftEndListening ==
  /\ mainLoop = "idle"
  /\ attached
  /\ inTransmission
  /\ attached' = FALSE
  /\ overrun' = FALSE
  /\ mainLoop' = "resetting"
  /\ UNCHANGED <<ring, inTransmission, temp, lastRead>>

ResetHead ==
  /\ mainLoop = "resetting"
  /\ head' = 0
  /\ mainLoop' = "headReset"
  /\ UNCHANGED <<item, tail, inTransmission, attached, temp, lastRead, overrun>>

ResetTail ==
  /\ mainLoop = "headReset"
  /\ tail' = 0
  /\ mainLoop' = "idle"
  /\ UNCHANGED <<item, head, inTransmission, attached, temp, lastRead, overrun>>

StartDetached ==
  /\ mainLoop = "idle"
  /\ ~attached
  /\ head' = 0
  /\ tail' = 0
  /\ attached' = TRUE
  /\ overrun' = FALSE
  /\ UNCHANGED <<item, mainLoop, temp, lastRead>>

SoftStartListening == StartDetached /\ UNCHANGED inTransmission

\* With the interrupt still attached, StartListening is ResetReceive.
StartListening == StartDetached /\ inTransmission' = FALSE

-----------------------------------------------------------------------------
Read == ReadIsAvailable \/ DequeueFetch \/ DequeueAdvance
Handshake == (\E b \in Bytes : HandshakeStore(b)) \/ HandshakeAdvance \/ HandshakeEnds
Reset == ResetReceive \/ ResetHead \/ ResetTail
Listening == EndListening \/ SoftEndListening \/ SoftStartListening \/ StartListening

QueueNext ==
  \/ \E b \in Bytes : ReceiveInterruptEnqueue(b)
  \/ Read
  \/ Handshake
  \/ Reset
  \/ Listening

QueueSpec == QueueInit /\ [][QueueNext]_queueVars

-----------------------------------------------------------------------------
(* The queue as its users see it.                                          *)

Occupancy == IF head <= tail THEN tail - head ELSE tail - head + QUEUE_MAX_SIZE

\* The slot of the i-th byte, counted from the oldest.
SlotOf(i) == IF head + i - 1 < QUEUE_MAX_SIZE
             THEN head + i - 1
             ELSE head + i - 1 - QUEUE_MAX_SIZE

Held == [i \in 1 .. Occupancy |-> item[SlotOf(i)]]

\* A reset is effective from its first step on.
Contents == IF mainLoop \in {"resetting", "headReset"} THEN << >> ELSE Held

Fifo == INSTANCE BoundedFifo WITH
          Capacity <- QUEUE_MAX_SIZE - 1,
          queue <- Contents

\* Every value a variable may hold (item, head and tail of class ByteQueue,
\* receiveState reduced to "in transmission", the main loop's position).
QueueTypeOK ==
  /\ item \in [Slots -> Bytes]
  /\ head \in Slots
  /\ tail \in Slots
  /\ inTransmission \in BOOLEAN
  /\ attached \in BOOLEAN
  /\ mainLoop \in {"idle", "available", "fetched", "storing", "stored", "resetting", "headReset"}
  /\ temp \in Bytes
  /\ lastRead \in Bytes \cup {-1}
  /\ overrun \in BOOLEAN

\* Between the fetch of a byte and the advance of head, no interrupt changes
\* the slot being read: the interrupt handler never writes an unread slot
\* (the IsFull test in ReceiveInterrupt and the free slot of the ring).
ReaderSlotStable ==
  mainLoop = "fetched" => ~IsEmpty /\ temp = item[head]

\* Outside a transmission the queue is empty, so the byte that ends the
\* handshake, the first command of the session, is the first one read: no
\* byte of an earlier session can be taken for a command.
CommandFirst ==
  ~inTransmission /\ mainLoop \in {"idle", "storing"} => IsEmpty

\* With every interleaving of the interrupt, the queue is a first-in first-out
\* buffer of QUEUE_MAX_SIZE - 1 bytes that loses a byte only when it is full.
ImplementsFifo == Fifo!Spec
=============================================================================
