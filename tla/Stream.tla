------------------------------- MODULE Stream --------------------------------
(***************************************************************************)
(* Media streamed from the card while they play.  A .WAV is served by an   *)
(* interrupt handler from two buffers that the main loop refills in turn    *)
(* (HandleStream, DoubleBufferedStreaming, WavPlayer.s); a .CVD by the main *)
(* loop itself, block by block, between accesses it polls for               *)
(* (HandleNonInterruptedStream, CvdPlayer.s).  In both the C64 asks for a   *)
(* byte by an access to IO2 and then reads it from the cartridge ROM, the   *)
(* page of which the firmware has latched meanwhile.                        *)
(*                                                                         *)
(* A byte of the file is its offset.  Both sides measure time in ticks, of  *)
(* a millisecond for a .WAV and of a video frame for a .CVD; what a tick    *)
(* waits for are the durations the code relies on.                          *)
(***************************************************************************)
EXTENDS Integers

CONSTANTS DOUBLE_BUFFER_SIZE,   \* bytes of a buffer (64)
          Block,                \* bytes of a block of video (400)
          Sizes,                \* lengths of files, a .WAV without its header
          MaxLag,               \* samples played while the card is read
          STREAM_TIMEOUT,       \* ticks without a request that end a .WAV (100)
          FALL_TIMEOUT,         \* ticks the firmware waits for an access (2)
          FIRST_TIMEOUT,        \* and for the first one (6 times as long)
          SETUP,                \* ticks a player needs before its first request
          PAUSE,                \* ticks a player waits after a video (5)
          CARD,                 \* ticks the card needs for a block at most
          MaxFailures           \* reads of the card that fail

Media == {"wav", "cvd"}
Status == -3     \* the answer to the command, still on the latch
Garbage == -2    \* what is read where the cartridge is hidden
Pad == -1
Unknown == -1    \* the length of a video that could not be asked for
Bytes == Status .. -1 \cup Nat

ASSUME StreamAssumption ==
  /\ DOUBLE_BUFFER_SIZE \in Nat /\ DOUBLE_BUFFER_SIZE >= 2
  /\ Block \in Nat \ {0} /\ Sizes \subseteq Nat /\ Sizes # {}
  /\ {STREAM_TIMEOUT, FALL_TIMEOUT, FIRST_TIMEOUT, SETUP, PAUSE, CARD} \subseteq Nat \ {0}
  /\ {MaxLag, MaxFailures} \subseteq Nat

VARIABLES media, size, remaining,   \* remaining: CVD_SIZE, or Unknown
          c64,           \* what the player does
          wanted,        \* bytes of the block it still asks for
          since,         \* ticks it has been doing so
          fw,            \* what the firmware does
          pos, got,      \* position in workingFile; bytes the last read gave
          failures,
          buffer,        \* stream1 and stream2; the first is also ni
          turn, filled,  \* the buffer to refill, and how far it is
          index,         \* streamBufferIndex, bufferIndex
          usedBuffer, currentByte,
          stopAfter, firstByte,
          waited,        \* ticks since lastStreamRequestTime, or in the wait loop
          age,           \* ticks since millis() was read for the comparison
          latch, exromLow,
          pending,       \* an access whose interrupt has not run yet
          lag,           \* history: requests served during this refill
          count, heard,  \* history: bytes the player has read, the last of them
          behind,        \* history: which it read before the interrupt ran
          lost, late     \* history: a read failed; a block was asked for too early

file == <<media, size, remaining>>
player == <<c64, wanted, since>>
card == <<pos, got, failures, lost>>
buffers == <<buffer, turn, filled, index, usedBuffer, currentByte>>
control == <<fw, stopAfter, firstByte, waited, age>>
pins == <<latch, exromLow, pending>>
history == <<lag, count, heard, behind, late>>
vars == <<file, player, card, buffers, control, pins, history>>

Indices(m) == 0 .. (IF m = "wav" THEN DOUBLE_BUFFER_SIZE ELSE Block) - 1
ByteAt(i) == IF i < 0 THEN Status ELSE IF i < size THEN i ELSE Pad

\* Beyond the end there is only padding, and counting stops.
CountMax == size + Block + 2

Smaller(a, b) == IF a < b THEN a ELSE b

-----------------------------------------------------------------------------
(* The card.  A read that fails gives nothing and may have moved on.        *)

Reads(from, want) ==
  LET there == Smaller(want, size - from) IN
  {[bytes |-> there, to |-> from + there, failed |-> 0]}
  \cup {[bytes |-> 0, to |-> from + k, failed |-> 1] : k \in 0 .. there}

CanFail(n) == failures + n <= MaxFailures

\* ReadAndPadBuffer
Padded(r, from, m) == [i \in Indices(m) |-> IF i < r.bytes THEN from + i ELSE Pad]

\* Mutant of IsFinal: available() is not asked.
IsFinalIfShort(r) == r.bytes < Block
\* ReadAndPadFinalAware
IsFinal(r) == r.bytes < Block \/ r.to = size

-----------------------------------------------------------------------------
(* The commands.                                                            *)

Init ==
  /\ media = "wav" /\ size = CHOOSE s \in Sizes : TRUE
  /\ remaining = Unknown
  /\ c64 = "menu" /\ wanted = 0 /\ since = 0
  /\ fw = "listening" /\ pos = 0 /\ got = 0 /\ failures = 0
  /\ buffer = [b \in {0, 1} |-> [i \in Indices("wav") |-> Pad]]
  /\ turn = 0 /\ filled = 0 /\ index = 0 /\ usedBuffer = 0 /\ currentByte = Pad
  /\ stopAfter = FALSE /\ firstByte = FALSE /\ waited = 0 /\ age = 0
  /\ latch = Status /\ exromLow = FALSE /\ pending = FALSE
  /\ lag = 0 /\ count = 0 /\ heard = Status /\ behind = FALSE
  /\ lost = FALSE /\ late = FALSE

\* A player has opened its file and asks for the stream.  The length of a .CVD
\* is taken for endless if GET_FILEINFO fails.
Ask(m, s) ==
  /\ c64 = "menu" /\ fw = "listening"
  /\ media' = m /\ size' = s
  /\ remaining' \in (IF m = "wav" \/ MaxFailures = 0 THEN {s} ELSE {s, Unknown})
  /\ c64' = "asked" /\ exromLow' = TRUE
  /\ UNCHANGED <<wanted, since, card, buffers, control, latch, pending, history>>

\* Mutant of FirstIndex: the first byte, already in currentByte, is sent twice.
FirstIndexAgain == 0
FirstIndex == 1

\* HandleStream, up to its loop.
HandleStream ==
  /\ c64 = "asked" /\ media = "wav" /\ fw = "listening"
  /\ \E r \in Reads(0, DOUBLE_BUFFER_SIZE) : \E s \in Reads(r.to, DOUBLE_BUFFER_SIZE) :
       /\ CanFail(r.failed + s.failed)
       /\ failures' = failures + r.failed + s.failed
       /\ buffer' = [b \in {0, 1} |-> IF b = 0 THEN Padded(r, 0, "wav")
                                               ELSE Padded(s, r.to, "wav")]
       /\ pos' = s.to /\ got' = s.bytes /\ lost' = (r.failed + s.failed > 0)
       /\ currentByte' = buffer'[0][0]
  /\ usedBuffer' = 0 /\ index' = FirstIndex /\ turn' = 0 /\ filled' = 0
  /\ waited' = 0 /\ age' = 0 /\ fw' = "spin" /\ latch' = Status
  /\ c64' = "setup" /\ since' = 0
  /\ UNCHANGED <<file, wanted, stopAfter, firstByte, exromLow, pending, history>>

\* HandleNonInterruptedStream, up to its loop.
HandleNonInterruptedStream ==
  /\ c64 = "asked" /\ media = "cvd" /\ fw = "listening"
  /\ \E r \in Reads(0, Block) :
       /\ CanFail(r.failed)
       /\ failures' = failures + r.failed
       /\ buffer' = [buffer EXCEPT ![0] = Padded(r, 0, "cvd")]
       /\ pos' = r.to /\ got' = r.bytes /\ lost' = (r.failed > 0)
       /\ stopAfter' = IsFinal(r)
  /\ index' = 0 /\ firstByte' = TRUE /\ waited' = 0 /\ fw' = "fall" /\ latch' = Status
  /\ c64' = "setup" /\ since' = 0
  /\ UNCHANGED <<file, wanted, turn, filled, usedBuffer, currentByte, age, exromLow,
                 pending, history>>

-----------------------------------------------------------------------------
(* The main loop of HandleStream.                                           *)

Streaming == media = "wav" /\ fw \in {"spin", "check", "read", "store", "exit"}
Refilling == fw \in {"read", "store"}

\* while (usedBuffer == turn), and the call of millis().
Spin ==
  /\ fw = "spin"
  /\ IF usedBuffer = turn THEN fw' = "check" /\ age' = 0
                          ELSE fw' = "read" /\ UNCHANGED age
  /\ UNCHANGED <<file, player, card, buffers, stopAfter, firstByte, waited, pins, history>>

\* Mutant of TimedOut: it never is.
TimedOutNever == FALSE
\* The difference is unsigned: a request after the call of millis() and in a later
\* millisecond makes it enormous.
TimedOut == waited - age > STREAM_TIMEOUT \/ waited < age

Compare ==
  /\ fw = "check"
  /\ fw' = IF TimedOut THEN "exit" ELSE "spin"
  /\ UNCHANGED <<file, player, card, buffers, stopAfter, firstByte, waited, age, pins,
                 history>>

ReadCard ==
  /\ fw = "read"
  /\ \E r \in Reads(pos, DOUBLE_BUFFER_SIZE) :
       /\ CanFail(r.failed)
       /\ failures' = failures + r.failed /\ lost' = (lost \/ r.failed = 1)
       /\ pos' = r.to /\ got' = r.bytes
  /\ filled' = 0 /\ fw' = "store"
  /\ UNCHANGED <<file, player, buffer, turn, index, usedBuffer, currentByte, stopAfter,
                 firstByte, waited, age, pins, history>>

\* One byte of the read, or of the padding.
StoreByte ==
  /\ fw = "store"
  /\ buffer' = [buffer EXCEPT ![turn][filled] =
                  IF filled < got THEN pos - got + filled ELSE Pad]
  /\ filled' = filled + 1
  /\ IF filled' = DOUBLE_BUFFER_SIZE THEN turn' = 1 - turn /\ fw' = "spin" /\ lag' = 0
                                     ELSE UNCHANGED <<turn, fw, lag>>
  /\ UNCHANGED <<file, player, card, index, usedBuffer, currentByte, stopAfter, firstByte,
                 waited, age, pins, count, heard, behind, late>>

\* Mutant of BufferEnd: one byte more is taken.
BufferEndLate(i) == i = DOUBLE_BUFFER_SIZE + 1
BufferEnd(i) == i = DOUBLE_BUFFER_SIZE

\* DoubleBufferedStreaming, the interrupt of an access.
DoubleBufferedStreaming ==
  /\ Streaming /\ pending
  /\ pending' = FALSE /\ waited' = 0
  /\ latch' = currentByte
  /\ currentByte' = buffer[usedBuffer][index]
  /\ IF BufferEnd(index + 1) THEN index' = 0 /\ usedBuffer' = 1 - usedBuffer
                             ELSE index' = index + 1 /\ UNCHANGED usedBuffer
  /\ lag' = IF usedBuffer # turn \/ Refilling THEN lag + 1 ELSE 0
  /\ UNCHANGED <<file, player, card, buffer, turn, filled, fw, stopAfter, firstByte, age,
                 exromLow, count, heard, behind, late>>

-----------------------------------------------------------------------------
(* The main loop of HandleNonInterruptedStream.                             *)

\* ReadAndPadFinalAware, with interrupts on; accesses are not seen meanwhile.
Refill ==
  /\ fw = "refill"
  /\ \E r \in Reads(pos, Block) :
       /\ CanFail(r.failed)
       /\ failures' = failures + r.failed /\ lost' = (lost \/ r.failed = 1)
       /\ buffer' = [buffer EXCEPT ![0] = Padded(r, pos, "cvd")]
       /\ pos' = r.to /\ got' = r.bytes /\ stopAfter' = IsFinal(r)
  /\ index' = 0 /\ fw' = "fall" /\ waited' = 0
  /\ UNCHANGED <<file, player, turn, filled, usedBuffer, currentByte, firstByte, age, pins,
                 history>>

WaitLimit == IF firstByte THEN FIRST_TIMEOUT ELSE FALL_TIMEOUT

EdgeTimeout ==
  /\ fw = "fall" /\ waited >= WaitLimit
  /\ fw' = "exit"
  /\ UNCHANGED <<file, player, card, buffers, stopAfter, firstByte, waited, age, pins,
                 history>>

\* DisableCartridge, StartListening: the end of both commands, and of their locals.
StopStreaming ==
  /\ fw = "exit"
  /\ fw' = "listening" /\ exromLow' = FALSE /\ pending' = FALSE
  /\ turn' = 0 /\ filled' = 0 /\ got' = 0 /\ age' = 0 /\ waited' = 0
  /\ stopAfter' = FALSE /\ firstByte' = FALSE
  /\ UNCHANGED <<file, player, pos, failures, lost, buffer, index, usedBuffer, currentByte,
                 latch, history>>

Firmware ==
  \/ HandleStream \/ HandleNonInterruptedStream \/ Spin \/ Compare \/ ReadCard
  \/ StoreByte \/ Refill \/ EdgeTimeout \/ StopStreaming

-----------------------------------------------------------------------------
(* The players.                                                             *)

\* The interrupt of a .WAV is set up; the raster line of a block is reached.
StartBlock ==
  /\ c64 = "setup" \/ (c64 = "gap" /\ since = 1)
  /\ c64' = "play" /\ since' = 0 /\ wanted' = IF media = "cvd" THEN Block ELSE 1
  /\ UNCHANGED <<file, card, buffers, control, pins, history>>

\* The loop of a .CVD latches the next byte, and leaves its block after the last.
PollSeesAccess ==
  /\ latch' = buffer[0][index] /\ firstByte' = FALSE /\ waited' = 0
  /\ IF index + 1 = Block
     THEN fw' = (IF stopAfter THEN "exit" ELSE "refill") /\ UNCHANGED index
     ELSE index' = index + 1 /\ UNCHANGED fw
  /\ UNCHANGED <<late, pending>>

\* An access to MODULATION_ADDRESS.  While a buffer is refilled no more than
\* MaxLag samples are played, and one before the main loop begins with it.
Trigger ==
  /\ c64 = "play" /\ c64' = "read" /\ since' = 0
  /\ \/ /\ Streaming /\ ~pending
        /\ IF Refilling THEN lag < MaxLag ELSE usedBuffer # turn => lag = 0
        /\ pending' = TRUE
        /\ UNCHANGED <<latch, firstByte, waited, fw, index, late>>
     \/ fw = "fall" /\ PollSeesAccess
     \/ /\ fw \in {"refill", "listening"} \/ (fw = "exit" /\ media = "cvd")
        /\ late' = (late \/ fw = "refill")
        /\ UNCHANGED <<latch, firstByte, waited, fw, index, pending>>
  /\ UNCHANGED <<file, wanted, card, buffer, turn, filled, usedBuffer, currentByte, stopAfter,
                 age, exromLow, lag, count, heard, behind>>

\* SBC and ORA of CVD_SIZE.
IsLastBlock == remaining # Unknown /\ remaining <= Block

\* The byte is read from CARTRIDGE_BANK_VALUE; for a .WAV perhaps before the
\* interrupt has run.
ReadByte ==
  /\ c64 = "read"
  /\ heard' = IF exromLow THEN latch ELSE Garbage
  /\ behind' = pending /\ count' = Smaller(count + 1, CountMax)
  /\ IF media = "wav" \/ wanted > 1
     THEN c64' = "play" /\ wanted' = (IF media = "cvd" THEN wanted - 1 ELSE wanted)
          /\ UNCHANGED <<remaining, since>>
     ELSE /\ c64' = (IF IsLastBlock THEN "done" ELSE "gap") /\ wanted' = 0 /\ since' = 0
          /\ remaining' = IF remaining = Unknown \/ IsLastBlock
                          THEN remaining ELSE remaining - Block
  /\ UNCHANGED <<media, size, card, buffers, control, pins, lag, late>>

\* CVD_DONE, after its five frames.
StartTalking ==
  /\ c64 = "done" /\ since >= PAUSE
  /\ c64' = "talking"
  /\ UNCHANGED <<file, wanted, since, card, buffers, control, pins, history>>

\* The C64 is reset or switched off.
Die ==
  /\ c64 \in {"asked", "setup", "play", "read", "gap"} /\ fw # "listening"
  /\ c64' = "off"
  /\ UNCHANGED <<file, wanted, since, card, buffers, control, pins, history>>

\* A press of SEL, looked at when no command runs, brings the menu back; its
\* listing uses the memory of the buffers.
Select ==
  /\ fw = "listening" /\ c64 \notin {"menu", "asked"}
  /\ c64' = "menu" /\ wanted' = 0 /\ since' = 0 /\ remaining' = Unknown
  /\ buffer' = [b \in {0, 1} |-> [i \in Indices("wav") |-> Pad]]
  /\ pos' = 0 /\ failures' = 0 /\ lost' = FALSE
  /\ lag' = 0 /\ count' = 0 /\ heard' = Status /\ behind' = FALSE /\ late' = FALSE
  /\ UNCHANGED <<media, size, got, turn, filled, index, usedBuffer, currentByte, control,
                 pins>>

Player == StartBlock \/ Trigger \/ ReadByte \/ StartTalking

-----------------------------------------------------------------------------
(* Time.                                                                    *)

\* What happens before the next tick: a player keeps to its rate, a block is
\* decoded and read within its frame, a loop iteration is short.
PlayerInTime ==
  /\ c64 = "setup" => since < (IF media = "wav" THEN STREAM_TIMEOUT ELSE SETUP)
  /\ c64 # "read"
  /\ c64 = "play" => media = "wav" /\ since < 1
  /\ c64 = "gap" => since < 1
  /\ c64 = "done" => since <= PAUSE

FirmwareInTime ==
  /\ fw = "check" => age = 0
  /\ fw = "fall" => waited <= WaitLimit
  /\ fw = "refill" => waited < CARD
  /\ fw # "exit"

Tick ==
  /\ c64 \notin {"menu", "asked", "talking"} /\ ~(c64 = "off" /\ fw = "listening")
  /\ PlayerInTime /\ FirmwareInTime
  /\ since' = IF c64 = "off" THEN since ELSE since + 1
  /\ waited' = IF fw = "listening" \/ (media = "wav" /\ waited > STREAM_TIMEOUT + 1)
               THEN waited ELSE waited + 1
  /\ age' = IF fw = "check" THEN age + 1 ELSE age
  /\ UNCHANGED <<file, c64, wanted, card, buffers, fw, stopAfter, firstByte, pins, history>>

Next ==
  \/ \E m \in Media, s \in Sizes : Ask(m, s)
  \/ Firmware \/ DoubleBufferedStreaming \/ Player \/ Die \/ Select \/ Tick

\* Both machines run, and time passes.
Fairness ==
  /\ WF_vars(Firmware) /\ WF_vars(DoubleBufferedStreaming) /\ WF_vars(Player)
  /\ WF_vars(Tick)
Spec == Init /\ [][Next]_vars /\ Fairness

-----------------------------------------------------------------------------
(* Properties.                                                              *)

\* Every variable holds values of its kind: no index leaves its buffer.
TypeOK ==
  /\ media \in Media /\ size \in Sizes /\ remaining \in Nat \cup {Unknown}
  /\ c64 \in {"menu", "asked", "setup", "play", "read", "gap", "done", "talking", "off"}
  /\ wanted \in 0 .. Block /\ since \in Nat
  /\ fw \in {"listening", "spin", "check", "read", "store", "fall", "refill", "exit"}
  /\ pos \in 0 .. size /\ got \in Nat /\ failures \in 0 .. MaxFailures
  /\ \A b \in {0, 1} : \A i \in DOMAIN buffer[b] : buffer[b][i] \in Bytes
  /\ turn \in {0, 1} /\ usedBuffer \in {0, 1} /\ filled \in 0 .. DOUBLE_BUFFER_SIZE
  /\ Streaming => index \in Indices("wav")
  /\ fw \in {"fall", "refill"} => index \in Indices("cvd")
  /\ {currentByte, latch, heard} \subseteq Bytes
  /\ {stopAfter, firstByte, exromLow, pending, behind, lost, late} \subseteq BOOLEAN
  /\ {waited, lag, count} \subseteq Nat /\ age \in {0, 1}

\* The player hears the file in order and then padding, nothing left out or
\* twice, over any number of refills; an interrupt that comes late costs the one
\* sample it comes late for.  The cartridge is hidden right after the last byte of
\* a video was latched; that byte alone may be read from elsewhere, and the samples
\* of a song whose stream was cut off (EndsWhenQuiet).
InOrder ==
  count > 0 /\ ~lost /\ ~late =>
    \/ heard = ByteAt(count - 1 - (IF behind THEN 1 ELSE 0))
    \/ heard = Garbage /\ media = "wav" /\ ~Streaming
    \/ heard = Garbage /\ media = "cvd"
       /\ (remaining = Unknown \/ c64 \in {"done", "talking", "menu", "off"})

\* The blocks the firmware sends are as many as the player asks for, whether or
\* not the file ends with a block: neither waits for the other.
SameEnd ==
  media = "cvd" /\ ~lost /\ ~late /\ remaining # Unknown =>
    /\ c64 = "done" => fw \in {"exit", "listening"}
    /\ c64 = "gap" => fw \in {"refill", "fall"}

\* A C64 that has gone away, or has seen its whole video, is noticed, whatever
\* the firmware was doing.
StreamEnds == c64 \in {"off", "done"} ~> fw = "listening"

\* STREAM_TIMEOUT_MS: "100 milliseconds timeout for streaming".
EndsWhenQuiet ==
  [][media = "wav" /\ fw = "check" /\ fw' = "exit" => waited > STREAM_TIMEOUT]_vars

=============================================================================
