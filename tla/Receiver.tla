------------------------------ MODULE Receiver ------------------------------
(***************************************************************************)
(* How a C64 gets a command to the cartridge: the bits it sends as gaps    *)
(* between two /IO2 accesses, the interrupt handler that measures the gaps *)
(* (CartInterface::ReceiveInterrupt), the main loop that assembles the     *)
(* handshake and opens a session (ReceiveHandler) and reads its bytes      *)
(* (HandleApi), and the timeouts that end what the C64 abandoned.          *)
(*                                                                         *)
(* A byte is the set of its 1 bits, bit 0 is sent first.  Time appears as  *)
(* the class of a gap, and as `quiet`: no edge comes for so long that every *)
(* running timeout expires.  The queue is the one ByteQueue implements.    *)
(***************************************************************************)
EXTENDS Integers, Sequences, SequencesExt, FiniteSets

CONSTANTS Bits,                                      \* bits in a byte (8)
          IDENTIFIER_1, IDENTIFIER_2, IDENTIFIER_3,  \* 0x64, 0x46, 0x17
          Sessions,        \* what C64 programs send after the identifiers
          Arguments,       \* the commands, each with its number of arguments
          END_TALKING,     \* COMMAND_END_TALKING
          Capacity,        \* bytes the receive queue holds
          LogEdges,        \* edges that can pass while "HS OK" is logged
          MaxNoise         \* spurious edges between two sessions

Bit == 0 .. Bits - 1
Byte == SUBSET Bit
Identifiers == <<IDENTIFIER_1, IDENTIFIER_2, IDENTIFIER_3>>

ASSUME ReceiverAssumption ==
  /\ Bits \in Nat \ {0}
  /\ ToSet(Identifiers) \subseteq Byte
  /\ Sessions \subseteq Seq(Byte) \ {<< >>}
  /\ DOMAIN Arguments \subseteq Byte /\ \A c \in DOMAIN Arguments : Arguments[c] \in Nat
  /\ Capacity \in Nat \ {0}
  /\ LogEdges \in Nat /\ MaxNoise \in Nat

VARIABLES session, outbox,  \* the C64's session, and the bytes of it to send
          bit, inPulse,     \* the bit being sent, between its two accesses
          paused,           \* history: it worked for long before its first command
          quiet, noise,     \* no edge for long; spurious edges since the last one
          bitState, bitMask, currentByte, receiveState,
          queue,
          pc, logged,       \* where ReceiveHandler is; edges during its logging
          awaited,          \* arguments HandleApi still waits for
          exromLow,         \* the cartridge ROM is visible to the C64
          received          \* history: the bytes HandleApi has read this session

sender == <<session, outbox, bit, inPulse, paused>>
line == <<quiet, noise>>
decoder == <<bitState, bitMask, currentByte>>
api == <<awaited, received>>
vars == <<sender, line, decoder, receiveState, queue, pc, logged, api, exromLow>>

Idents == {"IDENTIFIER_1_OK", "IDENTIFIER_2_OK", "IDENTIFIER_3_OK"}
Gaps == {"short", "zero", "invalid", "one", "long"}
Ended == bitState # "BIT_STARTED"
InTransmission == receiveState = "IN_TRANSMISSION"

Init ==
  /\ session = << >> /\ outbox = << >> /\ bit = 0 /\ inPulse = FALSE
  /\ paused = FALSE
  /\ quiet = TRUE /\ noise = 0
  /\ bitState = "BIT_STARTED" /\ bitMask = 0 /\ currentByte = {}
  /\ receiveState = "IDLE"
  /\ queue = << >>
  /\ pc = "handler" /\ logged = 0
  /\ awaited = 0 /\ received = << >>
  /\ exromLow = FALSE

-----------------------------------------------------------------------------
(* ReceiveInterrupt.  bitMask is the number of the bit it selects; Bits     *)
(* stands for the mask shifted out, 0.                                      *)

WithBit == IF bitState = "BIT_ONE_END" /\ bitMask < Bits
           THEN currentByte \cup {bitMask} ELSE currentByte
Shifted == IF bitMask < Bits THEN bitMask + 1 ELSE Bits

Enqueue(b) == queue' = IF Len(queue) < Capacity THEN Append(queue, b) ELSE queue

\* Mutant of BitEnd: currentByte is not cleared for the next byte.
BitEndKeepingByte(gap) ==
  /\ bitState' = IF gap = "one" THEN "BIT_ONE_END" ELSE "BIT_ZERO_END"
  /\ IF InTransmission
     THEN LET byte == IF gap = "one" /\ bitMask < Bits
                      THEN currentByte \cup {bitMask} ELSE currentByte
          IN /\ currentByte' = byte
             /\ IF Shifted = Bits
                THEN Enqueue(byte) /\ bitMask' = 0
                ELSE bitMask' = Shifted /\ UNCHANGED queue
     ELSE UNCHANGED <<bitMask, currentByte, queue>>

\* A bit ends in the gap class "zero" or "one".
BitEnd(gap) ==
  /\ bitState' = IF gap = "one" THEN "BIT_ONE_END" ELSE "BIT_ZERO_END"
  /\ IF InTransmission
     THEN LET byte == IF gap = "one" /\ bitMask < Bits
                      THEN currentByte \cup {bitMask} ELSE currentByte
          IN IF Shifted = Bits
             THEN Enqueue(byte) /\ bitMask' = 0 /\ currentByte' = {}
             ELSE bitMask' = Shifted /\ currentByte' = byte /\ UNCHANGED queue
     ELSE UNCHANGED <<bitMask, currentByte, queue>>

ReceiveInterrupt(gap) ==
  /\ \/ /\ Ended
        /\ bitState' = "BIT_STARTED"
        /\ UNCHANGED <<bitMask, currentByte, queue>>
     \/ /\ ~Ended
        /\ gap \in {"short", "invalid", "long"}
        /\ bitMask' = 0 /\ currentByte' = {}
        /\ UNCHANGED <<bitState, queue>>
     \/ /\ ~Ended
        /\ gap \in {"zero", "one"}
        /\ BitEnd(gap)
  /\ logged' = IF pc = "logging" THEN logged + 1 ELSE 0
  /\ quiet' = FALSE
  /\ UNCHANGED <<receiveState, pc, api, exromLow>>

-----------------------------------------------------------------------------
(* The C64.  The main loop looks at every bit of a handshake before the     *)
(* next access (1.8 ms after a bit, 0.36 ms within one), unless it logs.    *)

MainLoopKeepsUp ==
  /\ pc = "handler" => InTransmission \/ ~Ended
  /\ pc = "waiting" => InTransmission \/ Ended
  /\ pc = "logging" => logged < LogEdges

\* Every timeout has expired and every byte has been read.
Settled ==
  /\ quiet /\ pc = "handler"
  /\ receiveState \notin Idents
  /\ InTransmission \/ ~Ended
  /\ queue = << >> /\ awaited = 0

StartTalking(s) ==
  /\ outbox = << >> /\ Settled /\ ~InTransmission
  /\ session' = s
  /\ outbox' = Identifiers \o s
  /\ noise' = 0
  /\ paused' = FALSE
  /\ received' = << >>
  /\ UNCHANGED <<bit, inPulse, quiet, decoder, receiveState, queue, pc, logged,
                 awaited, exromLow>>

\* PROT_SendBit: the access that starts a bit follows the last one by 1.8 ms.
StartBit ==
  /\ outbox # << >> /\ ~inPulse
  /\ MainLoopKeepsUp
  /\ inPulse' = TRUE
  /\ ReceiveInterrupt("long")
  /\ UNCHANGED <<session, outbox, bit, paused, noise>>

EndBit ==
  /\ inPulse
  /\ MainLoopKeepsUp
  /\ ReceiveInterrupt(IF bit \in Head(outbox) THEN "one" ELSE "zero")
  /\ inPulse' = FALSE
  /\ bit' = (bit + 1) % Bits
  /\ outbox' = IF bit = Bits - 1 THEN Tail(outbox) ELSE outbox
  /\ UNCHANGED <<session, paused, noise>>

\* No access for long: after a session, before the END_TALKING that ends it, or
\* before its first command (the players and the KERNAL bridge open a session and
\* set up the screen, the sound or the vectors first).
Pause ==
  /\ ~quiet /\ ~inPulse /\ bit = 0
  /\ MainLoopKeepsUp
  /\ \/ outbox = << >>
     \/ outbox = <<END_TALKING>> /\ Len(session) > 1
     \/ outbox = session
  /\ quiet' = TRUE
  /\ paused' = (paused \/ (session # << >> /\ outbox = session))
  /\ UNCHANGED <<session, outbox, bit, inPulse, noise, decoder, receiveState, queue, pc, logged, api, exromLow>>

\* The C64 is switched off or crashes in a handshake or inside a command.
Abort ==
  /\ Len(outbox) > 1
  /\ session' = << >> /\ outbox' = << >> /\ bit' = 0 /\ inPulse' = FALSE
  /\ quiet' = FALSE
  /\ UNCHANGED <<paused, noise, decoder, receiveState, queue, pc, logged, api, exromLow>>

\* Other programs touch the /IO2 range, at any distance.
Noise(gap) ==
  /\ outbox = << >> /\ ~InTransmission
  /\ noise = 0 => Settled
  /\ noise < MaxNoise
  /\ MainLoopKeepsUp
  /\ noise' = noise + 1
  /\ session' = << >>
  /\ ReceiveInterrupt(gap)
  /\ UNCHANGED <<outbox, bit, inPulse, paused>>

-----------------------------------------------------------------------------
(* ReceiveHandler.                                                          *)

\* 200 ms without progress in a handshake.
StaleIdentifier ==
  /\ pc = "handler" /\ receiveState \in Idents /\ quiet
  /\ bitState' = "BIT_STARTED" /\ bitMask' = 0 /\ currentByte' = {}
  /\ receiveState' = "IDLE"
  /\ UNCHANGED <<sender, line, queue, pc, logged, api, exromLow>>

\* The state after a whole handshake byte.
NextIdent(byte) ==
  CASE receiveState = "IDLE" ->
         IF byte = IDENTIFIER_1 THEN "IDENTIFIER_1_OK" ELSE "IDLE"
    [] receiveState = "IDENTIFIER_1_OK" ->
         IF byte = IDENTIFIER_2 THEN "IDENTIFIER_2_OK" ELSE "IDLE"
    [] receiveState = "IDENTIFIER_2_OK" ->
         IF byte = IDENTIFIER_3 THEN "IDENTIFIER_3_OK" ELSE "IDLE"

HandshakeBit ==
  /\ pc = "handler" /\ ~InTransmission /\ Ended
  /\ ~(receiveState \in Idents /\ quiet)
  /\ \/ /\ Shifted < Bits
        /\ bitMask' = Shifted /\ currentByte' = WithBit
        /\ pc' = "waiting"
        /\ UNCHANGED <<receiveState, queue, exromLow>>
     \/ /\ Shifted = Bits /\ receiveState # "IDENTIFIER_3_OK"
        /\ receiveState' = NextIdent(WithBit)
        /\ bitMask' = 0 /\ currentByte' = {}
        /\ pc' = "waiting"
        /\ UNCHANGED <<queue, exromLow>>
     \/ /\ Shifted = Bits /\ receiveState = "IDENTIFIER_3_OK"
        /\ Enqueue(WithBit)
        /\ receiveState' = "IN_TRANSMISSION"
        /\ exromLow' = TRUE
        /\ bitMask' = Bits /\ currentByte' = WithBit
        /\ pc' = "logging"
  /\ logged' = 0
  /\ UNCHANGED <<bitState, sender, line, api>>

\* Mutant of HandshakeDone: the mask stays shifted out.
HandshakeDoneKeepingMask ==
  /\ pc = "logging"
  /\ pc' = "waiting"
  /\ UNCHANGED <<sender, line, decoder, receiveState, queue, logged, api, exromLow>>

\* LOGI "HS OK" returns, and the byte is cleared.
HandshakeDone ==
  /\ pc = "logging"
  /\ bitMask' = 0 /\ currentByte' = {}
  /\ pc' = "waiting"
  /\ UNCHANGED <<sender, line, bitState, receiveState, queue, logged, api, exromLow>>

\* Mutant of EdgeSeen: only an edge ends the wait, not an open session.
OnlyEdgeSeen ==
  /\ pc = "waiting" /\ ~Ended
  /\ pc' = "handler"
  /\ UNCHANGED <<sender, line, decoder, receiveState, queue, logged, api, exromLow>>

\* The wait for the next access ends with it, or at once in a session.
EdgeSeen ==
  /\ pc = "waiting"
  /\ ~Ended \/ InTransmission
  /\ pc' = "handler"
  /\ UNCHANGED <<sender, line, decoder, receiveState, queue, logged, api, exromLow>>

\* 2 ms without an access.
EdgeTimeout ==
  /\ pc = "waiting" /\ Ended /\ ~InTransmission /\ quiet
  /\ bitState' = "BIT_STARTED" /\ bitMask' = 0 /\ currentByte' = {}
  /\ receiveState' = "IDLE"
  /\ pc' = "handler"
  /\ UNCHANGED <<sender, line, queue, logged, api, exromLow>>

-----------------------------------------------------------------------------
(* HandleApi in a session: DisableCartridge and ResetReceive end it.        *)

\* Mutant of EndSession: the cartridge stays visible.
EndSessionVisible ==
  /\ bitState' = "BIT_STARTED" /\ bitMask' = 0
  /\ receiveState' = "IDLE"
  /\ queue' = << >>
  /\ awaited' = 0
  /\ UNCHANGED <<currentByte, exromLow>>

EndSession ==
  /\ exromLow' = FALSE
  /\ bitState' = "BIT_STARTED" /\ bitMask' = 0
  /\ receiveState' = "IDLE"
  /\ queue' = << >>
  /\ awaited' = 0
  /\ UNCHANGED currentByte

ReadCommand ==
  /\ pc = "handler" /\ InTransmission
  /\ awaited = 0 /\ queue # << >>
  /\ received' = Append(received, Head(queue))
  /\ \/ /\ Head(queue) \in DOMAIN Arguments \ {END_TALKING}
        /\ awaited' = Arguments[Head(queue)]
        /\ queue' = Tail(queue)
        /\ UNCHANGED <<decoder, receiveState, exromLow>>
     \/ /\ Head(queue) \notin DOMAIN Arguments \ {END_TALKING}
        /\ EndSession
  /\ UNCHANGED <<sender, line, pc, logged>>

ReadArgument ==
  /\ pc = "handler" /\ InTransmission
  /\ awaited > 0 /\ queue # << >>
  /\ received' = Append(received, Head(queue))
  /\ queue' = Tail(queue)
  /\ awaited' = awaited - 1
  /\ UNCHANGED <<sender, line, decoder, receiveState, pc, logged, exromLow>>

\* Mutant of ArgumentTimeout: the command is given up, the session stays open.
ArgumentTimeoutInSession ==
  /\ pc = "handler" /\ awaited > 0 /\ queue = << >> /\ quiet
  /\ awaited' = 0
  /\ UNCHANGED <<sender, line, decoder, receiveState, queue, pc, logged, exromLow, received>>

\* AwaitByte: 120 ms without an argument.
ArgumentTimeout ==
  /\ pc = "handler" /\ awaited > 0 /\ queue = << >> /\ quiet
  /\ EndSession
  /\ UNCHANGED <<sender, line, pc, logged, received>>

MainLoop ==
  \/ StaleIdentifier
  \/ HandshakeBit \/ HandshakeDone \/ EdgeSeen \/ EdgeTimeout
  \/ ReadCommand \/ ReadArgument \/ ArgumentTimeout

C64 ==
  \/ \E s \in Sessions : StartTalking(s)
  \/ StartBit \/ EndBit \/ Pause \/ Abort

Next == MainLoop \/ C64 \/ \E gap \in Gaps : Noise(gap)

\* The main loop never stops and time passes after a session; the C64 owes
\* nothing.
Spec == Init /\ [][Next]_vars /\ WF_vars(MainLoop) /\ WF_vars(outbox = << >> /\ Pause)

-----------------------------------------------------------------------------
(* Properties.                                                              *)

\* What the C64 sends in a session, and how many bytes of it are sent.
Stream == Identifiers \o session
Sent == Len(Stream) - Len(outbox)

\* Every variable holds values of its kind; what is left to send is the end of the
\* session; the mask never leaves the byte except while the handshake's last bit is
\* handled.
TypeOK ==
  /\ session \in Sessions \cup {<< >>}
  /\ outbox \in Seq(Byte) /\ Sent \in 0 .. Len(Stream)
  /\ \A i \in 1 .. Len(outbox) : outbox[i] = Stream[Sent + i]
  /\ bit \in Bit /\ inPulse \in BOOLEAN /\ paused \in BOOLEAN
  /\ quiet \in BOOLEAN /\ noise \in 0 .. MaxNoise
  /\ bitState \in {"BIT_STARTED", "BIT_ZERO_END", "BIT_ONE_END"}
  /\ bitMask \in 0 .. (IF pc = "logging" THEN Bits ELSE Bits - 1)
  /\ currentByte \in Byte
  /\ receiveState \in Idents \cup {"IDLE", "IN_TRANSMISSION"}
  /\ queue \in Seq(Byte) /\ Len(queue) <= Capacity
  /\ pc \in {"handler", "logging", "waiting"} /\ logged \in 0 .. LogEdges
  /\ awaited \in Nat /\ exromLow \in BOOLEAN
  /\ received \in Seq(Byte)

\* What the firmware reads and holds of a session is what the C64 sent after
\* the identifiers, in order, nothing twice and nothing of an earlier session,
\* whatever spurious edges and abandoned sessions came before, also those whose
\* handshake timed out.  (A program that works for 2 ms between its handshake and
\* its first command can lose the handshake: its bytes are then taken for one.)
InOrder == session # << >> /\ ~paused => IsPrefix(received \o queue, session)

\* The cartridge ROM hides the C64's RAM at $8000 only during a session: every
\* way out of one (END_TALKING, an unknown command, a timeout) hides it again.
HiddenOutsideSession == exromLow => InTransmission

\* A session whose first command follows the handshake at once, and that is sent
\* to its end, is read to its end, whatever was sent before it.  (After a longer
\* pause the 2 ms wait for an edge can have dropped the handshake.)
Delivered == (session # << >> /\ outbox = << >> /\ ~paused)
               ~> (outbox # << >> \/ received = session \/ session = << >>)

\* After a C64 went away in a handshake or inside a command, the receiver is
\* ready for a new session, with the cartridge hidden.
Recovers ==
  session = << >> ~> receiveState = "IDLE" /\ ~Ended /\ ~exromLow
=============================================================================
