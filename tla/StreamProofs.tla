---------------------------- MODULE StreamProofs ------------------------------
(***************************************************************************)
(* Proofs about Stream, for every size of a buffer and of a block, all      *)
(* lengths of files and all timeouts.                                       *)
(***************************************************************************)
EXTENDS Stream, TLAPS

LEMMA Constants ==
  /\ DOUBLE_BUFFER_SIZE \in Nat /\ DOUBLE_BUFFER_SIZE >= 2
  /\ Block \in Nat \ {0} /\ Sizes \subseteq Nat /\ Sizes # {}
  /\ STREAM_TIMEOUT \in Nat \ {0} /\ FALL_TIMEOUT \in Nat \ {0} /\ FIRST_TIMEOUT \in Nat \ {0}
  /\ SETUP \in Nat \ {0} /\ PAUSE \in Nat \ {0} /\ CARD \in Nat \ {0}
  /\ MaxLag \in Nat /\ MaxFailures \in Nat
BY StreamAssumption

\* What the card can give of the bytes that are there.
LEMMA ReadFacts ==
  ASSUME size \in Nat, NEW from \in 0 .. size, NEW want \in Nat, NEW r \in Reads(from, want)
  PROVE  /\ r.bytes \in Nat /\ r.to \in from .. size /\ r.failed \in {0, 1}
         /\ r.bytes <= r.to - from
         /\ r.failed = 0 => r.bytes = Smaller(want, size - from) /\ r.to = from + r.bytes
<1> DEFINE there == Smaller(want, size - from)
<1>1. there \in 0 .. size - from
  BY DEF Smaller
<1>2. CASE r = [bytes |-> there, to |-> from + there, failed |-> 0]
  BY <1>1, <1>2
<1>3. ASSUME NEW k \in 0 .. there, r = [bytes |-> 0, to |-> from + k, failed |-> 1]
      PROVE  /\ r.bytes = 0 /\ r.to = from + k /\ r.failed = 1
             /\ from + k \in from .. size /\ 0 <= (from + k) - from
  BY <1>1, <1>3
<1> QED BY <1>2, <1>3 DEF Reads

LEMMA PaddedType ==
  ASSUME size \in Nat, NEW from \in Nat, NEW m \in Media, NEW r, r.bytes \in Nat
  PROVE  Padded(r, from, m) \in [Indices(m) -> Bytes]
<1>1. Indices(m) \subseteq Nat
  BY Constants DEF Indices
<1>2. \A i \in Indices(m) : (IF i < r.bytes THEN from + i ELSE Pad) \in Bytes
  BY <1>1 DEF Bytes, Pad, Status
<1> QED BY <1>2 DEF Padded

\* A block replaces the first buffer and leaves the second.
LEMMA FirstBuffer ==
  ASSUME NEW old, old = [b \in {0, 1} |-> old[b]], NEW S, NEW block \in S,
         NEW new, new = [old EXCEPT ![0] = block]
  PROVE  new = [b \in {0, 1} |-> new[b]] /\ new[0] \in S /\ new[1] = old[1]
<1>1. new = [b \in {0, 1} |-> IF b = 0 THEN block ELSE old[b]]
  OBVIOUS
<1> QED BY <1>1

-----------------------------------------------------------------------------
(* Types.  The indices stay in the buffers because of the domains these     *)
(* have while they are used, and the offsets of a refill because the last   *)
(* read did not give more than lies before the position.                    *)

BuffersOK ==
  /\ buffer = [b \in {0, 1} |-> buffer[b]]
  /\ Streaming => \A b \in {0, 1} : buffer[b] \in [Indices("wav") -> Bytes]
  /\ fw \in {"fall", "refill"} => buffer[0] \in [Indices("cvd") -> Bytes]
  /\ fw = "store" => filled < DOUBLE_BUFFER_SIZE

PositionsOK ==
  /\ fw \in {"spin", "check", "read", "store"} => media = "wav"
  /\ fw \in {"fall", "refill"} => media = "cvd"
  /\ c64 = "menu" => fw = "listening" /\ pos = 0
  /\ fw = "listening" => got = 0
  /\ got <= pos

TInv == TypeOK /\ BuffersOK /\ PositionsOK

LEMMA TypeInit == Init => TInv
<1> SUFFICES ASSUME Init PROVE TInv
  OBVIOUS
<1>1. size \in Sizes /\ size \in Nat
  BY Constants DEF Init
<1>2. Pad \in Bytes /\ Status \in Bytes
  BY DEF Bytes, Pad, Status
<1>3. buffer = [b \in {0, 1} |-> buffer[b]]
      /\ \A b \in {0, 1} : \A i \in DOMAIN buffer[b] : buffer[b][i] \in Bytes
  BY <1>2 DEF Init
<1>4. TypeOK
  <2>1. {currentByte, latch, heard} \subseteq Bytes
    BY <1>2 DEF Init
  <2>2. {stopAfter, firstByte, exromLow, pending, behind, lost, late} \subseteq BOOLEAN
    BY DEF Init
  <2>3. {waited, lag, count} \subseteq Nat /\ age \in {0, 1} /\ ~Streaming
        /\ wanted \in 0 .. Block /\ failures \in 0 .. MaxFailures
        /\ filled \in 0 .. DOUBLE_BUFFER_SIZE /\ pos \in 0 .. size
    BY <1>1, Constants DEF Init, Streaming
  <2>4. /\ media \in Media /\ size \in Sizes /\ remaining \in Nat \cup {Unknown}
        /\ c64 \in {"menu", "asked", "setup", "play", "read", "gap", "done", "talking", "off"}
        /\ since \in Nat /\ got \in Nat
        /\ fw \in {"listening", "spin", "check", "read", "store", "fall", "refill", "exit"}
        /\ turn \in {0, 1} /\ usedBuffer \in {0, 1}
        /\ ~(fw \in {"fall", "refill"})
    BY <1>1 DEF Init, Media
  <2> QED BY <1>3, <2>1, <2>2, <2>3, <2>4 DEF TypeOK
<1>5. BuffersOK /\ PositionsOK
  BY <1>1, <1>3 DEF Init, BuffersOK, PositionsOK, Streaming
<1> QED BY <1>4, <1>5 DEF TInv

LEMMA TypeStep ==
  ASSUME TInv, [Next]_vars
  PROVE  TInv'
<1> USE DEF TInv
<1>1. size \in Nat /\ Block \in Nat \ {0} /\ DOUBLE_BUFFER_SIZE \in Nat
      /\ DOUBLE_BUFFER_SIZE >= 2 /\ Pad \in Bytes /\ Status \in Bytes /\ Garbage \in Bytes
  BY Constants DEF TypeOK, Bytes, Pad, Status, Garbage
<1>0. buffer = [b \in {0, 1} |-> buffer[b]]
  BY DEF BuffersOK
<1>2. ASSUME NEW m \in Media, NEW s \in Sizes, Ask(m, s)
      PROVE  TInv'
  BY <1>2, Constants DEF Ask, TypeOK, BuffersOK, PositionsOK, Streaming, Unknown,
     card, buffers, control, history, Indices
<1>3. CASE HandleStream
  <2>1. PICK r \in Reads(0, DOUBLE_BUFFER_SIZE) : \E s \in Reads(r.to, DOUBLE_BUFFER_SIZE) :
       /\ CanFail(r.failed + s.failed)
       /\ failures' = failures + r.failed + s.failed
       /\ buffer' = [b \in {0, 1} |-> IF b = 0 THEN Padded(r, 0, "wav")
                                               ELSE Padded(s, r.to, "wav")]
       /\ pos' = s.to /\ got' = s.bytes /\ lost' = (r.failed + s.failed > 0)
       /\ currentByte' = buffer'[0][0]
    BY <1>3 DEF HandleStream
  <2>2. PICK s \in Reads(r.to, DOUBLE_BUFFER_SIZE) :
       /\ CanFail(r.failed + s.failed)
       /\ failures' = failures + r.failed + s.failed
       /\ buffer' = [b \in {0, 1} |-> IF b = 0 THEN Padded(r, 0, "wav")
                                               ELSE Padded(s, r.to, "wav")]
       /\ pos' = s.to /\ got' = s.bytes /\ lost' = (r.failed + s.failed > 0)
       /\ currentByte' = buffer'[0][0]
    BY <2>1
  <2>3. r.bytes \in Nat /\ r.to \in 0 .. size /\ r.failed \in {0, 1}
    <3>1. 0 \in 0 .. size
      BY <1>1
    <3> QED BY <1>1, <3>1, ReadFacts
  <2>4. s.bytes \in Nat /\ s.to \in 0 .. size /\ s.failed \in {0, 1} /\ s.bytes <= s.to
    <3>1. s.to \in r.to .. size /\ s.bytes \in Nat /\ s.failed \in {0, 1}
          /\ s.bytes <= s.to - r.to
      BY <1>1, <2>3, ReadFacts
    <3> QED BY <2>3, <3>1
  <2>5. \A b \in {0, 1} : buffer'[b] \in [Indices("wav") -> Bytes]
    <3>1. Padded(r, 0, "wav") \in [Indices("wav") -> Bytes]
          /\ Padded(s, r.to, "wav") \in [Indices("wav") -> Bytes]
      BY <1>1, <2>3, <2>4, PaddedType DEF Media
    <3> QED BY <2>2, <3>1
  <2>6. buffer' = [b \in {0, 1} |-> buffer'[b]]
    BY <2>2
  <2>7. currentByte' \in Bytes
    <3>1. 0 \in Indices("wav")
      BY <1>1 DEF Indices
    <3> QED BY <2>2, <2>5, <3>1
  <2>8. failures' \in 0 .. MaxFailures /\ lost' \in BOOLEAN
    BY <2>2, <2>3, <2>4, Constants DEF CanFail, TypeOK
  <2>9. index' \in Indices("wav")
    BY <1>1, <1>3 DEF HandleStream, FirstIndex, Indices
  <2>10. TypeOK'
    BY <1>1, <1>3, <2>2, <2>4, <2>5, <2>7, <2>8, <2>9
       DEF HandleStream, TypeOK, file, history, Media, Streaming
  <2> QED BY <1>3, <2>2, <2>4, <2>5, <2>6, <2>10
          DEF HandleStream, BuffersOK, PositionsOK, file, Streaming
<1>4. CASE HandleNonInterruptedStream
  <2>1. PICK r \in Reads(0, Block) :
       /\ CanFail(r.failed)
       /\ failures' = failures + r.failed
       /\ buffer' = [buffer EXCEPT ![0] = Padded(r, 0, "cvd")]
       /\ pos' = r.to /\ got' = r.bytes /\ lost' = (r.failed > 0)
       /\ stopAfter' = IsFinal(r)
    BY <1>4 DEF HandleNonInterruptedStream
  <2>2. r.bytes \in Nat /\ r.to \in 0 .. size /\ r.failed \in {0, 1} /\ r.bytes <= r.to
    <3>1. 0 \in 0 .. size
      BY <1>1
    <3> QED BY <1>1, <3>1, ReadFacts
  <2>3. Padded(r, 0, "cvd") \in [Indices("cvd") -> Bytes]
    BY <1>1, <2>2, PaddedType DEF Media
  <2>4. /\ buffer' = [b \in {0, 1} |-> buffer'[b]]
        /\ buffer'[0] \in [Indices("cvd") -> Bytes] /\ buffer'[1] = buffer[1]
    <3>1. buffer' = [buffer EXCEPT ![0] = Padded(r, 0, "cvd")]
      BY <2>1
    <3> QED BY <1>0, <3>1, <2>3, FirstBuffer
  <2>5. \A b \in {0, 1} : \A i \in DOMAIN buffer'[b] : buffer'[b][i] \in Bytes
    BY <2>4 DEF TypeOK
  <2>6. failures' \in 0 .. MaxFailures /\ lost' \in BOOLEAN /\ stopAfter' \in BOOLEAN
    BY <2>1, <2>2, Constants DEF CanFail, TypeOK, IsFinal
  <2>7. index' \in Indices("cvd")
    BY <1>1, <1>4 DEF HandleNonInterruptedStream, Indices
  <2>8. TypeOK'
    BY <1>1, <1>4, <2>1, <2>2, <2>5, <2>6, <2>7
       DEF HandleNonInterruptedStream, TypeOK, file, history, Streaming
  <2> QED BY <1>4, <2>1, <2>2, <2>4, <2>8
          DEF HandleNonInterruptedStream, BuffersOK, PositionsOK, file, Streaming
<1>5. CASE Spin \/ Compare
  BY <1>5 DEF Spin, Compare, TypeOK, BuffersOK, PositionsOK, Streaming, file, player, card, buffers,
              pins, history, Indices
<1>6. CASE ReadCard
  <2>1. PICK r \in Reads(pos, DOUBLE_BUFFER_SIZE) :
       /\ CanFail(r.failed)
       /\ failures' = failures + r.failed /\ lost' = (lost \/ r.failed = 1)
       /\ pos' = r.to /\ got' = r.bytes
    BY <1>6 DEF ReadCard
  <2>2. r.bytes \in Nat /\ r.to \in 0 .. size /\ r.failed \in {0, 1} /\ r.bytes <= r.to
    <3>1. pos \in 0 .. size
      BY DEF TypeOK
    <3>2. r.to \in pos .. size /\ r.bytes \in Nat /\ r.failed \in {0, 1}
          /\ r.bytes <= r.to - pos
      BY <1>1, <3>1, ReadFacts
    <3> QED BY <3>1, <3>2
  <2>3. failures' \in 0 .. MaxFailures /\ lost' \in BOOLEAN
    BY <2>1, <2>2, Constants DEF CanFail, TypeOK
  <2>4. filled' = 0 /\ fw = "read" /\ fw' = "store" /\ pos' \in 0 .. size' /\ got' \in Nat
        /\ got' <= pos' /\ filled' < DOUBLE_BUFFER_SIZE /\ filled' \in 0 .. DOUBLE_BUFFER_SIZE
    BY <1>1, <1>6, <2>1, <2>2 DEF ReadCard, file
  <2>5. UNCHANGED <<media, size, remaining, c64, wanted, since, buffer, turn, index, usedBuffer,
                    currentByte, stopAfter, firstByte, waited, age, latch, exromLow, pending,
                    lag, count, heard, behind, late>>
    BY <1>6 DEF ReadCard, file, player, pins, history
  <2>6. Streaming' <=> Streaming
    BY <2>4, <2>5 DEF Streaming
  <2>7. TypeOK'
    BY <2>3, <2>4, <2>5, <2>6 DEF TypeOK, Indices
  <2> QED BY <2>4, <2>5, <2>6, <2>7 DEF BuffersOK, PositionsOK, Indices
<1>7. CASE StoreByte
  <2>1. /\ fw = "store" /\ media = "wav" /\ Streaming /\ filled \in 0 .. DOUBLE_BUFFER_SIZE - 1
        /\ turn \in {0, 1} /\ buffer[turn] \in [Indices("wav") -> Bytes]
        /\ got \in Nat /\ pos \in Nat /\ got <= pos
    BY <1>1, <1>7 DEF StoreByte, TypeOK, BuffersOK, PositionsOK, Streaming
  <2> DEFINE byte == IF filled < got THEN pos - got + filled ELSE Pad
  <2>2. byte \in Bytes /\ filled \in Indices("wav")
    BY <1>1, <2>1 DEF Bytes, Indices
  <2>3. buffer' = [buffer EXCEPT ![turn][filled] = byte]
    BY <1>7 DEF StoreByte
  <2>4. /\ buffer' = [b \in {0, 1} |-> buffer'[b]]
        /\ \A b \in {0, 1} : buffer'[b] \in [Indices("wav") -> Bytes]
    <3> HIDE DEF byte
    <3> QED BY <2>1, <2>2, <2>3 DEF BuffersOK
  <2>5. /\ filled' = filled + 1 /\ filled' \in 0 .. DOUBLE_BUFFER_SIZE
        /\ turn' \in {0, 1} /\ fw' \in {"store", "spin"} /\ lag' \in Nat
        /\ fw' = "store" => filled' < DOUBLE_BUFFER_SIZE
    BY <1>1, <1>7, <2>1 DEF StoreByte, TypeOK
  <2>6. UNCHANGED <<media, size, remaining, c64, wanted, since, pos, got, failures, lost, index,
                    usedBuffer, currentByte, stopAfter, firstByte, waited, age, latch, exromLow,
                    pending, count, heard, behind, late>>
    BY <1>7 DEF StoreByte, file, player, card, pins
  <2>7. Streaming' /\ index' \in Indices("wav") /\ Indices("wav")' = Indices("wav")
    BY <2>1, <2>5, <2>6 DEF Streaming, TypeOK, Indices
  <2>8. TypeOK'
    BY <2>4, <2>5, <2>6, <2>7 DEF TypeOK
  <2> QED BY <2>1, <2>4, <2>5, <2>6, <2>7, <2>8 DEF BuffersOK, PositionsOK
<1>8. CASE DoubleBufferedStreaming
  <2>1. /\ Streaming /\ usedBuffer \in {0, 1} /\ index \in Indices("wav")
        /\ buffer[usedBuffer] \in [Indices("wav") -> Bytes]
    BY <1>8 DEF DoubleBufferedStreaming, TypeOK, BuffersOK
  <2>2. currentByte' \in Bytes /\ latch' \in Bytes
    BY <1>8, <2>1 DEF DoubleBufferedStreaming, TypeOK
  <2>3. index' \in Indices("wav") /\ usedBuffer' \in {0, 1} /\ lag' \in Nat
    BY <1>1, <1>8, <2>1 DEF DoubleBufferedStreaming, TypeOK, BufferEnd, Indices
  <2>4. UNCHANGED <<media, size, remaining, c64, wanted, since, pos, got, failures, lost, buffer,
                    turn, filled, fw, stopAfter, firstByte, age, exromLow, count, heard,
                    behind, late>>
        /\ pending' = FALSE /\ waited' = 0
    BY <1>8 DEF DoubleBufferedStreaming, file, player, card
  <2>5. Streaming' /\ fw' \notin {"fall", "refill"} /\ Indices("wav")' = Indices("wav")
    BY <2>1, <2>4 DEF Streaming, Indices
  <2>6. TypeOK'
    <3>1. {currentByte', latch', heard'} \subseteq Bytes
      BY <2>2, <2>4 DEF TypeOK
    <3>2. {stopAfter', firstByte', exromLow', pending', behind', lost', late'} \subseteq BOOLEAN
      BY <2>4 DEF TypeOK
    <3>3. {waited', lag', count'} \subseteq Nat /\ age' \in {0, 1}
      BY <2>3, <2>4 DEF TypeOK
    <3> QED BY <2>3, <2>4, <2>5, <3>1, <3>2, <3>3 DEF TypeOK
  <2> QED BY <2>1, <2>4, <2>5, <2>6 DEF BuffersOK, PositionsOK
<1>9. CASE Refill
  <2>1. PICK r \in Reads(pos, Block) :
       /\ CanFail(r.failed)
       /\ failures' = failures + r.failed /\ lost' = (lost \/ r.failed = 1)
       /\ buffer' = [buffer EXCEPT ![0] = Padded(r, pos, "cvd")]
       /\ pos' = r.to /\ got' = r.bytes /\ stopAfter' = IsFinal(r)
    BY <1>9 DEF Refill
  <2>2. pos \in 0 .. size /\ pos \in Nat
    BY <1>1 DEF TypeOK
  <2>3. r.bytes \in Nat /\ r.to \in 0 .. size /\ r.failed \in {0, 1} /\ r.bytes <= r.to
    <3>1. r.to \in pos .. size /\ r.bytes \in Nat /\ r.failed \in {0, 1}
          /\ r.bytes <= r.to - pos
      BY <1>1, <2>2, ReadFacts
    <3> QED BY <2>2, <3>1
  <2>4. Padded(r, pos, "cvd") \in [Indices("cvd") -> Bytes]
    BY <1>1, <2>2, <2>3, PaddedType DEF Media
  <2>5. /\ buffer' = [b \in {0, 1} |-> buffer'[b]]
        /\ buffer'[0] \in [Indices("cvd") -> Bytes] /\ buffer'[1] = buffer[1]
    <3>1. buffer' = [buffer EXCEPT ![0] = Padded(r, pos, "cvd")]
      BY <2>1
    <3> QED BY <1>0, <3>1, <2>4, FirstBuffer
  <2>6. \A b \in {0, 1} : \A i \in DOMAIN buffer'[b] : buffer'[b][i] \in Bytes
    BY <2>5 DEF TypeOK
  <2>7. failures' \in 0 .. MaxFailures /\ lost' \in BOOLEAN /\ stopAfter' \in BOOLEAN
    BY <2>1, <2>3, Constants DEF CanFail, TypeOK, IsFinal
  <2>8. index' = 0 /\ fw' = "fall" /\ waited' = 0 /\ fw = "refill" /\ index' \in Indices("cvd")
    BY <1>1, <1>9 DEF Refill, Indices
  <2>9. UNCHANGED <<media, size, remaining, c64, wanted, since, turn, filled, usedBuffer,
                    currentByte, firstByte, age, latch, exromLow, pending, lag, count, heard,
                    behind, late>>
    BY <1>9 DEF Refill, file, player, pins, history
  <2>10. TypeOK'
    BY <2>1, <2>3, <2>6, <2>7, <2>8, <2>9 DEF TypeOK, Streaming
  <2> QED BY <2>1, <2>3, <2>5, <2>8, <2>9, <2>10 DEF BuffersOK, PositionsOK, Streaming
<1>10. CASE EdgeTimeout
  BY <1>10 DEF EdgeTimeout, TypeOK, BuffersOK, PositionsOK, Streaming, file, player, card, buffers,
               pins, history, Indices
<1>11. CASE StopStreaming
  <2>1. /\ fw = "exit" /\ fw' = "listening" /\ exromLow' = FALSE /\ pending' = FALSE
        /\ turn' = 0 /\ filled' = 0 /\ got' = 0 /\ age' = 0 /\ waited' = 0
        /\ stopAfter' = FALSE /\ firstByte' = FALSE
        /\ UNCHANGED <<media, size, remaining, c64, wanted, since, pos, failures, lost, buffer,
                      index, usedBuffer, currentByte, latch, lag, count, heard, behind, late>>
    BY <1>11 DEF StopStreaming, file, player, history
  <2>2. 0 \in 0 .. DOUBLE_BUFFER_SIZE /\ ~Streaming'
    BY <1>1, <2>1 DEF Streaming
  <2>3. {stopAfter', firstByte', exromLow', pending', behind', lost', late'} \subseteq BOOLEAN
    BY <2>1 DEF TypeOK
  <2>4. {waited', lag', count'} \subseteq Nat /\ age' \in {0, 1}
    BY <2>1 DEF TypeOK
  <2>5. TypeOK'
    BY <2>1, <2>2, <2>3, <2>4 DEF TypeOK
  <2> QED BY <2>1, <2>2, <2>5 DEF TypeOK, BuffersOK, PositionsOK
<1>12. CASE StartBlock \/ StartTalking \/ Die
  <2>1. /\ UNCHANGED <<file, card, buffers, control, pins, history>>
        /\ c64' \in {"play", "talking", "off"} /\ wanted' \in {wanted, Block, 1}
        /\ since' \in {since, 0}
    BY <1>12 DEF StartBlock, StartTalking, Die
  <2>2. wanted' \in 0 .. Block /\ since' \in Nat
    BY <1>1, <2>1 DEF TypeOK
  <2>3. Streaming' <=> Streaming
    BY <2>1 DEF Streaming, file, control
  <2>4. TypeOK'
    BY <2>1, <2>2, <2>3 DEF TypeOK, file, card, buffers, control, pins, history, Indices
  <2> QED BY <2>1, <2>3, <2>4 DEF BuffersOK, PositionsOK, file, card, buffers, control, Indices
<1>13. CASE Trigger
  <2>1. UNCHANGED <<media, size, remaining, wanted, pos, got, failures, lost, buffer, turn,
                    filled, usedBuffer, currentByte, stopAfter, age, exromLow, lag, count, heard,
                    behind>>
        /\ c64' = "read" /\ since' = 0 /\ c64 = "play"
    BY <1>13 DEF Trigger, file, card
  <2>2. CASE /\ pending' = TRUE
             /\ UNCHANGED <<latch, firstByte, waited, fw, index, late>>
    BY <2>1, <2>2 DEF TypeOK, BuffersOK, PositionsOK, Streaming, Indices
  <2>3. CASE fw = "fall" /\ PollSeesAccess
    <3>1. index \in Indices("cvd") /\ media = "cvd" /\ buffer[0] \in [Indices("cvd") -> Bytes]
      BY <2>3 DEF TypeOK, PositionsOK, BuffersOK
    <3>2. /\ latch' \in Bytes /\ firstByte' = FALSE /\ waited' = 0 /\ UNCHANGED <<late, pending>>
          /\ index' \in Indices("cvd") /\ fw' \in {"fall", "refill", "exit"}
      BY <1>1, <2>3, <3>1 DEF PollSeesAccess, Indices
    <3>3. ~Streaming' /\ Indices("cvd")' = Indices("cvd")
      BY <2>1, <3>1 DEF Streaming, Indices
    <3>4. TypeOK'
      <4>1. {currentByte', latch', heard'} \subseteq Bytes
        BY <2>1, <3>2 DEF TypeOK
      <4>2. {stopAfter', firstByte', exromLow', pending', behind', lost', late'} \subseteq BOOLEAN
        BY <2>1, <3>2 DEF TypeOK
      <4>3. {waited', lag', count'} \subseteq Nat /\ age' \in {0, 1}
        BY <2>1, <3>2 DEF TypeOK
      <4> QED BY <2>1, <3>2, <3>3, <4>1, <4>2, <4>3 DEF TypeOK
    <3> QED BY <2>1, <3>1, <3>2, <3>3, <3>4 DEF BuffersOK, PositionsOK
  <2>4. CASE /\ late' = (late \/ fw = "refill")
             /\ UNCHANGED <<latch, firstByte, waited, fw, index, pending>>
    BY <2>1, <2>4 DEF TypeOK, BuffersOK, PositionsOK, Streaming, Indices
  <2> QED BY <1>13, <2>2, <2>3, <2>4 DEF Trigger
<1>14. CASE ReadByte
  <2>1. UNCHANGED <<media, size, pos, got, failures, lost, buffer, turn, filled, index,
                    usedBuffer, currentByte, fw, stopAfter, firstByte, waited, age, latch,
                    exromLow, pending, lag, late>>
        /\ c64 = "read" /\ c64' \in {"play", "done", "gap"}
    BY <1>14 DEF ReadByte, card, buffers, control, pins
  <2>2. wanted' \in 0 .. Block /\ since' \in Nat /\ remaining' \in Nat \cup {Unknown}
    BY <1>1, <1>14 DEF ReadByte, TypeOK, IsLastBlock, Unknown
  <2>3. heard' \in Bytes /\ behind' \in BOOLEAN /\ count' \in Nat
    BY <1>1, <1>14 DEF ReadByte, TypeOK, Smaller, CountMax
  <2> QED BY <2>1, <2>2, <2>3 DEF TypeOK, BuffersOK, PositionsOK, Streaming, Indices
<1>15. CASE Select
  <2>1. /\ buffer' = [b \in {0, 1} |-> buffer'[b]]
        /\ \A b \in {0, 1} : \A i \in DOMAIN buffer'[b] : buffer'[b][i] \in Bytes
    BY <1>1, <1>15 DEF Select
  <2>2. /\ fw = "listening" /\ c64' = "menu" /\ wanted' = 0 /\ since' = 0
        /\ remaining' = Unknown /\ pos' = 0 /\ failures' = 0 /\ lost' = FALSE
        /\ lag' = 0 /\ count' = 0 /\ heard' = Status /\ behind' = FALSE /\ late' = FALSE
        /\ UNCHANGED <<media, size, got, turn, filled, index, usedBuffer, currentByte, fw,
                      stopAfter, firstByte, waited, age, latch, exromLow, pending>>
    BY <1>15 DEF Select, control, pins
  <2>3. 0 \in 0 .. Block /\ 0 \in 0 .. size /\ 0 \in 0 .. MaxFailures /\ ~Streaming'
    BY <1>1, <2>2, Constants DEF Streaming
  <2>4. {currentByte', latch', heard'} \subseteq Bytes
    BY <1>1, <2>2 DEF TypeOK
  <2>5. {stopAfter', firstByte', exromLow', pending', behind', lost', late'} \subseteq BOOLEAN
    BY <2>2 DEF TypeOK
  <2>6. {waited', lag', count'} \subseteq Nat /\ age' \in {0, 1}
    BY <2>2 DEF TypeOK
  <2>7. TypeOK'
    BY <2>1, <2>2, <2>3, <2>4, <2>5, <2>6 DEF TypeOK
  <2> QED BY <2>1, <2>2, <2>3, <2>7 DEF BuffersOK, PositionsOK
<1>16. CASE Tick
  <2>1. UNCHANGED <<media, size, remaining, c64, wanted, pos, got, failures, lost, buffer, turn,
                    filled, index, usedBuffer, currentByte, fw, stopAfter, firstByte, latch,
                    exromLow, pending, lag, count, heard, behind, late>>
    BY <1>16 DEF Tick, file, card, buffers, pins, history
  <2>2. since' \in Nat /\ waited' \in Nat /\ age' \in {0, 1}
    BY <1>16 DEF Tick, FirmwareInTime, TypeOK
  <2>3. Streaming' <=> Streaming
    BY <2>1 DEF Streaming
  <2>4. TypeOK'
    BY <2>1, <2>2, <2>3 DEF TypeOK, Indices
  <2> QED BY <2>1, <2>3, <2>4 DEF BuffersOK, PositionsOK, Indices
<1>17. CASE UNCHANGED vars
  BY <1>17 DEF vars, TypeOK, BuffersOK, PositionsOK, Streaming, Indices, file, player, card,
               buffers, control, pins, history
<1> QED BY <1>2, <1>3, <1>4, <1>5, <1>6, <1>7, <1>8, <1>9, <1>10, <1>11, <1>12, <1>13, <1>14,
           <1>15, <1>16, <1>17 DEF Next, Firmware, Player

\* No index leaves its buffer, for every size of the buffers and blocks, all lengths
\* of files and all timeouts.
THEOREM TypeCorrect == Spec => []TypeOK
<1>1. TInv => TypeOK
  BY DEF TInv
<1>2. TInv /\ [Next]_vars => TInv'
  BY TypeStep
<1> QED BY TypeInit, <1>1, <1>2, PTL DEF Spec

-----------------------------------------------------------------------------
(* The end of a video.  The two machines never compare notes: the player    *)
(* counts the length down, the firmware looks at what the card gives.  They *)
(* agree because, whatever the player is doing, what lies behind the        *)
(* position is what it still expects, less the block that is in the buffer; *)
(* and because the player is back in time, so that the firmware has not     *)
(* given up in the middle.                                                  *)

\* The buffer holds the first of r bytes the player still expects.
AtBlock(r) ==
  /\ size - pos = IF r <= Block THEN 0 ELSE r - Block
  /\ stopAfter <=> r <= Block

\* The firmware sees to the next block, with r bytes to come.
Between(r) ==
  /\ ~firstByte
  /\ \/ fw = "refill" /\ size - pos = r
     \/ fw = "fall" /\ AtBlock(r) /\ index = 0 /\ waited <= since

\* The firmware waits for the access after the first i of the block.
Waiting(i) == fw = "fall" /\ AtBlock(remaining) /\ index = i

Playing ==
  \/ Waiting(Block - wanted) /\ wanted \in 1 .. Block /\ waited < WaitLimit
  \/ fw = "refill" /\ wanted = Block /\ size - pos = remaining

Latched ==
  /\ wanted \in 1 .. Block /\ since = 0
  /\ wanted > 1 => Waiting(Block - wanted + 1) /\ waited = 0 /\ ~firstByte
  /\ wanted = 1 => IF remaining <= Block THEN fw \in {"exit", "listening"}
                                        ELSE Between(remaining - Block)

InStep ==
  /\ c64 = "asked" => remaining = size /\ fw = "listening"
  /\ c64 = "setup" => /\ Waiting(0) /\ firstByte
                      /\ waited = since /\ since <= SETUP
  /\ c64 = "play" => Playing
  /\ c64 = "read" => Latched
  /\ c64 = "gap" => Between(remaining) /\ since <= 1
  /\ c64 = "done" => fw \in {"exit", "listening"}

EndInv ==
  /\ c64 = "menu" => remaining = Unknown
  /\ c64 \in {"menu", "asked"} => fw = "listening" /\ ~lost
  /\ media = "cvd" /\ ~lost /\ ~late /\ remaining # Unknown => InStep

LEMMA EndInit == Init => EndInv
BY DEF Init, EndInv, InStep

\* A block that was read whole is followed by what the card still has.
LEMMA BlockRead ==
  ASSUME size \in Nat, NEW from \in 0 .. size, NEW n, n = size - from,
         NEW r \in Reads(from, Block), r.failed = 0,
         pos' = r.to, size' = size, stopAfter' = IsFinal(r)
  PROVE  AtBlock(n)'
<1>1. Block \in Nat \ {0}
  BY Constants
<1>2. r.bytes = Smaller(Block, size - from) /\ r.to = from + r.bytes
  BY <1>1, ReadFacts
<1>3. IsFinal(r) <=> n <= Block
  BY <1>1, <1>2 DEF Smaller, IsFinal
<1>4. size - r.to = IF n <= Block THEN 0 ELSE n - Block
  BY <1>1, <1>2 DEF Smaller
<1>5. stopAfter' <=> n <= Block
  BY <1>3
<1>6. Block' = Block
  OBVIOUS
<1> QED BY <1>4, <1>5 DEF AtBlock

LEMMA EndStep ==
  ASSUME TInv, EndInv, [Next]_vars, SETUP < FIRST_TIMEOUT, 1 < FALL_TIMEOUT
  PROVE  EndInv'
<1>1. size \in Nat /\ pos \in 0 .. size /\ Block \in Nat \ {0} /\ SETUP \in Nat
      /\ FIRST_TIMEOUT \in Nat /\ FALL_TIMEOUT \in Nat /\ since \in Nat /\ waited \in Nat
      /\ wanted \in 0 .. Block /\ remaining \in Nat \cup {Unknown}
      /\ {stopAfter, firstByte, lost, late} \subseteq BOOLEAN
  BY Constants DEF TInv, TypeOK
<1>2. ASSUME NEW m \in Media, NEW s \in Sizes, Ask(m, s)
      PROVE  EndInv'
  <2>1. c64' = "asked" /\ fw' = "listening" /\ size' = s /\ media' = m /\ ~lost'
        /\ (remaining' # Unknown => remaining' = size')
    BY <1>2 DEF Ask, control, card, EndInv
  <2> QED BY <2>1 DEF EndInv, InStep
<1>3. CASE HandleStream
  BY <1>3 DEF HandleStream, EndInv, file
<1>4. CASE HandleNonInterruptedStream
  <2> SUFFICES ASSUME remaining # Unknown, ~lost', ~late'
      PROVE  (Waiting(0) /\ firstByte /\ waited = since /\ since <= SETUP)'
    BY <1>4 DEF HandleNonInterruptedStream, EndInv, InStep, file
  <2>1. c64 = "asked" /\ media = "cvd" /\ fw = "listening" /\ UNCHANGED <<media, size, remaining>>
        /\ index' = 0 /\ firstByte' = TRUE /\ waited' = 0 /\ since' = 0 /\ fw' = "fall"
        /\ c64' = "setup"
    BY <1>4 DEF HandleNonInterruptedStream, file
  <2>2. PICK r \in Reads(0, Block) :
          r.failed = 0 /\ pos' = r.to /\ stopAfter' = IsFinal(r)
    <3>1. PICK r \in Reads(0, Block) :
            pos' = r.to /\ lost' = (r.failed > 0) /\ stopAfter' = IsFinal(r)
      BY <1>4 DEF HandleNonInterruptedStream
    <3>2. 0 \in 0 .. size /\ r.failed \in {0, 1}
      BY <1>1, ReadFacts
    <3>3. ~(r.failed > 0)
      BY <3>1
    <3> QED BY <3>1, <3>2, <3>3
  <2>3. UNCHANGED late /\ remaining = size
    BY <1>4 DEF HandleNonInterruptedStream, history, EndInv, InStep
  <2>4. AtBlock(size)'
    <3>1. 0 \in 0 .. size /\ size = size - 0
      BY <1>1
    <3> QED BY <1>1, <2>1, <2>2, <3>1, BlockRead
  <2> QED BY <1>1, <2>1, <2>3, <2>4 DEF Waiting, AtBlock
<1>5. CASE Spin \/ Compare \/ ReadCard \/ StoreByte \/ DoubleBufferedStreaming
  <2>1. media = "wav" /\ fw # "listening" /\ UNCHANGED <<media, remaining, c64>>
    BY <1>5 DEF Spin, Compare, ReadCard, StoreByte, DoubleBufferedStreaming, Streaming, file,
                player, TInv, PositionsOK
  <2> QED BY <2>1 DEF EndInv
<1>9. CASE Refill
  <2>1. fw = "refill" /\ fw' = "fall" /\ index' = 0 /\ waited' = 0 /\ c64 # "menu"
        /\ UNCHANGED <<media, size, remaining, c64, wanted, since, firstByte, late>>
    BY <1>9 DEF Refill, file, player, history, TInv, PositionsOK
  <2>2. PICK r \in Reads(pos, Block) :
          pos' = r.to /\ lost' = (lost \/ r.failed = 1) /\ stopAfter' = IsFinal(r)
    BY <1>9 DEF Refill
  <2> SUFFICES ASSUME media = "cvd", remaining # Unknown, ~lost', ~late
      PROVE  InStep'
    BY <2>1 DEF EndInv
  <2>3. InStep /\ c64 # "asked"
    BY <2>1, <2>2 DEF EndInv, InStep
  <2>4. r.failed = 0
    <3>1. r.failed \in {0, 1}
      BY <1>1, ReadFacts
    <3>2. ~(r.failed = 1)
      BY <2>2
    <3> QED BY <3>1, <3>2
  <2> DEFINE n == size - pos
  <2>5. /\ size' - pos' = IF n <= Block THEN 0 ELSE n - Block
        /\ stopAfter' <=> n <= Block
    <3>1. ASSUME NEW k, k = size - pos
          PROVE  AtBlock(k)'
      BY <1>1, <2>1, <2>2, <2>4, <3>1, BlockRead
    <3> QED BY <3>1 DEF AtBlock
  <2>6. CASE c64 = "play"
    <3>1. wanted = Block /\ n = remaining
      BY <2>1, <2>3, <2>6 DEF InStep, Playing, Waiting
    <3> QED BY <1>1, <2>1, <2>5, <2>6, <3>1 DEF InStep, Playing, Waiting, AtBlock, WaitLimit
  <2>7. CASE c64 = "read"
    <3>1. wanted = 1 /\ since = 0 /\ remaining > Block /\ n = remaining - Block
          /\ ~firstByte
      BY <1>1, <2>1, <2>3, <2>7 DEF InStep, Latched, Waiting, Between
    <3> QED BY <1>1, <2>1, <2>5, <2>7, <3>1 DEF InStep, Latched, Between, AtBlock
  <2>8. CASE c64 = "gap"
    <3>1. n = remaining /\ since <= 1 /\ ~firstByte
      BY <1>1, <2>1, <2>3, <2>8 DEF InStep, Between
    <3> QED BY <1>1, <2>1, <2>5, <2>8, <3>1 DEF InStep, Between, AtBlock
  <2>9. c64 \notin {"setup", "done"}
    BY <2>1, <2>3 DEF InStep, Waiting
  <2> QED BY <2>1, <2>3, <2>6, <2>7, <2>8, <2>9 DEF InStep
<1>10. CASE EdgeTimeout
  <2>1. fw = "fall" /\ waited >= WaitLimit /\ fw' = "exit"
        /\ UNCHANGED <<file, player, card, buffers, stopAfter, firstByte, waited, history>>
    BY <1>10 DEF EdgeTimeout
  <2>2. InStep => c64 \notin {"asked", "setup", "play", "gap"}
    BY <1>1, <2>1 DEF InStep, Waiting, Playing, Between, WaitLimit
  <2>3. InStep /\ c64 = "read" => wanted = 1 /\ remaining <= Block
    BY <1>1, <2>1 DEF InStep, Latched, Between, WaitLimit
  <2> QED BY <2>1, <2>2, <2>3 DEF EndInv, InStep, Latched, file, player, card, history
<1>11. CASE StopStreaming
  BY <1>1, <1>11 DEF StopStreaming, EndInv, InStep, Waiting, Playing, Latched, Between,
                     file, player, history
<1>12. CASE StartBlock
  <2>1. /\ c64 = "setup" \/ (c64 = "gap" /\ since = 1)
        /\ c64' = "play" /\ since' = 0 /\ wanted' = IF media = "cvd" THEN Block ELSE 1
        /\ UNCHANGED <<media, size, remaining, pos, lost, late, fw, stopAfter, firstByte, waited,
                      index>>
    BY <1>12 DEF StartBlock, file, card, buffers, control, history
  <2> SUFFICES ASSUME media = "cvd", InStep
      PROVE  Playing'
    BY <2>1 DEF EndInv, InStep
  <2> QED BY <1>1, <2>1 DEF InStep, Waiting, Between, Playing, AtBlock, WaitLimit
<1>13. CASE StartTalking \/ Die
  <2>1. c64' \in {"talking", "off"} /\ UNCHANGED <<media, remaining, lost, late>>
    BY <1>13 DEF StartTalking, Die, file, card, history
  <2> QED BY <2>1 DEF EndInv, InStep
<1>14. CASE Trigger
  <2>1. c64 = "play" /\ c64' = "read" /\ since' = 0
        /\ UNCHANGED <<media, size, remaining, wanted, pos, stopAfter, lost>>
    BY <1>14 DEF Trigger, file, card
  <2> SUFFICES ASSUME media = "cvd", remaining # Unknown, ~lost, ~late'
      PROVE  Latched'
    BY <2>1 DEF EndInv, InStep
  <2>2. ~late
    BY <1>14 DEF Trigger, PollSeesAccess
  <2>3. Playing
    BY <2>1, <2>2 DEF EndInv, InStep
  <2>4. fw = "fall" /\ PollSeesAccess
    <3>1. ~(Streaming /\ ~pending)
      BY DEF Streaming
    <3>2. fw # "refill" /\ fw # "listening" /\ fw # "exit"
      BY <1>14, <2>1, <2>3, <3>1 DEF Trigger, Playing, Waiting
    <3> QED BY <1>14, <3>1, <3>2 DEF Trigger
  <2>5. Waiting(Block - wanted) /\ wanted \in 1 .. Block
    BY <2>3, <2>4 DEF Playing
  <2>6. CASE wanted > 1
    <3>1. index + 1 # Block
      BY <1>1, <2>5, <2>6 DEF Waiting
    <3>2. fw' = "fall" /\ index' = index + 1 /\ waited' = 0 /\ firstByte' = FALSE
      BY <2>4, <3>1 DEF PollSeesAccess
    <3> QED BY <1>1, <2>1, <2>5, <2>6, <3>2 DEF Latched, Waiting, AtBlock
  <2>7. CASE wanted = 1
    <3>1. index + 1 = Block /\ AtBlock(remaining)
      BY <1>1, <2>5, <2>7 DEF Waiting
    <3>2. fw' = (IF stopAfter THEN "exit" ELSE "refill") /\ firstByte' = FALSE
      BY <2>4, <3>1 DEF PollSeesAccess
    <3> QED BY <1>1, <2>1, <2>5, <2>7, <3>1, <3>2 DEF Latched, Between, AtBlock
  <2> QED BY <1>1, <2>5, <2>6, <2>7
<1>15. CASE ReadByte
  <2>1. /\ c64 = "read"
        /\ IF media = "wav" \/ wanted > 1
           THEN c64' = "play" /\ wanted' = (IF media = "cvd" THEN wanted - 1 ELSE wanted)
                /\ UNCHANGED <<remaining, since>>
           ELSE /\ c64' = (IF IsLastBlock THEN "done" ELSE "gap") /\ wanted' = 0 /\ since' = 0
                /\ remaining' = IF remaining = Unknown \/ IsLastBlock
                                THEN remaining ELSE remaining - Block
        /\ UNCHANGED <<media, size, pos, lost, late, fw, stopAfter, firstByte, waited, index>>
    BY <1>15 DEF ReadByte, card, buffers, control
  <2> SUFFICES ASSUME media = "cvd", ~lost, ~late, remaining # Unknown
      PROVE  InStep'
    BY <2>1 DEF EndInv
  <2>2. Latched
    BY <2>1 DEF EndInv, InStep
  <2>3. CASE wanted > 1
    BY <1>1, <2>1, <2>2, <2>3 DEF Latched, InStep, Playing, Waiting, WaitLimit, AtBlock
  <2>4. CASE wanted = 1 /\ remaining <= Block
    BY <1>1, <2>1, <2>2, <2>4 DEF Latched, InStep, IsLastBlock
  <2>5. CASE wanted = 1 /\ remaining > Block
    BY <1>1, <2>1, <2>2, <2>5 DEF Latched, InStep, IsLastBlock, Between, AtBlock
  <2> QED BY <1>1, <2>2, <2>3, <2>4, <2>5 DEF Latched
<1>16. CASE Select
  BY <1>16 DEF Select, EndInv, control
<1>17. CASE Tick
  <2>1. /\ PlayerInTime /\ c64 \notin {"menu", "asked", "read"}
        /\ since' = IF c64 = "off" THEN since ELSE since + 1
        /\ UNCHANGED <<media, size, remaining, c64, wanted, pos, lost, late, fw, stopAfter,
                      firstByte, index>>
    BY <1>17 DEF Tick, PlayerInTime, file, card, buffers, history
  <2> SUFFICES ASSUME media = "cvd", InStep
      PROVE  InStep'
    BY <2>1 DEF EndInv
  <2>2. fw = "fall" => waited' = waited + 1
    BY <1>17 DEF Tick
  <2>3. CASE c64 = "setup"
    BY <1>1, <2>1, <2>2, <2>3 DEF InStep, Waiting, AtBlock, PlayerInTime
  <2>4. CASE c64 = "gap"
    BY <1>1, <2>1, <2>2, <2>4 DEF InStep, Between, AtBlock, PlayerInTime
  <2>5. c64 # "play"
    BY <2>1 DEF PlayerInTime
  <2> QED BY <2>1, <2>3, <2>4, <2>5 DEF InStep
<1>18. CASE UNCHANGED vars
  BY <1>18 DEF vars, file, player, card, buffers, control, history, EndInv, InStep, Waiting,
               Playing, Latched, Between, AtBlock, WaitLimit
<1> QED BY <1>2, <1>3, <1>4, <1>5, <1>9, <1>10, <1>11, <1>12, <1>13, <1>14, <1>15, <1>16, <1>17,
           <1>18 DEF Next, Firmware, Player

\* The player and the firmware end a video with the same block, for every length of
\* a file and of a block, when the timeouts are longer than the player's pauses.
THEOREM SameEndHolds ==
  ASSUME SETUP < FIRST_TIMEOUT, 1 < FALL_TIMEOUT
  PROVE  Spec => []SameEnd
<1>1. TInv /\ EndInv /\ [Next]_vars => TInv' /\ EndInv'
  BY TypeStep, EndStep
<1>2. EndInv => SameEnd
  BY DEF EndInv, InStep, Between, SameEnd
<1>3. Init => TInv /\ EndInv
  BY TypeInit, EndInit
<1> QED BY <1>1, <1>2, <1>3, PTL DEF Spec


-----------------------------------------------------------------------------
(***************************************************************************)
(* The bytes a player hears, for every size of a buffer and of a block, all *)
(* lengths of files and all timeouts: the inductive invariant of InOrder    *)
(* says where in the file both buffers, the position of the card and the    *)
(* latch are while the player has heard so many bytes.                      *)
(***************************************************************************)

-----------------------------------------------------------------------------
(* Bytes.                                                                   *)

\* ByteAt of a file of s bytes; a block that holds the first k of its bytes from
\* an offset on; the position after reading up to an offset.
Byte(s, i) == IF i < 0 THEN Status ELSE IF i < s THEN i ELSE Pad
Holds(block, s, from, k) == \A i \in 0 .. k - 1 : block[i] = Byte(s, from + i)

LEMMA ReadOn ==
  ASSUME size \in Nat, NEW p \in Nat, NEW want \in Nat,
         NEW r \in Reads(Smaller(size, p), want), r.failed = 0
  PROVE  /\ r.to = Smaller(size, p + want)
         /\ r.bytes = r.to - Smaller(size, p)
         /\ \A i \in 0 .. want - 1 :
              (IF i < r.bytes THEN Smaller(size, p) + i ELSE Pad) = Byte(size, p + i)
<1>1. Smaller(size, p) \in 0 .. size
  BY DEF Smaller
<1>2. r.bytes = Smaller(want, size - Smaller(size, p)) /\ r.to = Smaller(size, p) + r.bytes
  BY <1>1, ReadFacts
<1>3. r.to = Smaller(size, p + want) /\ r.bytes = r.to - Smaller(size, p)
  BY <1>2 DEF Smaller
<1>4. ASSUME NEW i \in 0 .. want - 1
      PROVE  (IF i < r.bytes THEN Smaller(size, p) + i ELSE Pad) = Byte(size, p + i)
  BY <1>2, <1>4 DEF Smaller, Byte
<1> QED BY <1>3, <1>4

LEMMA PaddedHolds ==
  ASSUME size \in Nat, NEW p \in Nat, NEW m \in Media, NEW want \in Nat,
         Indices(m) = 0 .. want - 1,
         NEW r \in Reads(Smaller(size, p), want), r.failed = 0
  PROVE  Holds(Padded(r, Smaller(size, p), m), size, p, want)
BY ReadOn DEF Padded, Holds

-----------------------------------------------------------------------------
(* What was asked for.                                                      *)

\* n accesses have been served.  Counting stops beyond the end, they may go on.
Served == count + (IF c64 = "read" THEN 1 ELSE 0) - (IF pending THEN 1 ELSE 0)
IsServed(n) == n >= Served /\ (count < CountMax => n = Served)

LEMMA HeardRight ==
  ASSUME NEW n \in Nat, IsServed(n), c64 = "read", size \in Nat, Block \in Nat,
         count \in 0 .. CountMax, pending \in BOOLEAN, size' = size,
         behind' = pending, count' = Smaller(count + 1, CountMax)
  PROVE  Byte(size, n - 1) = Byte(size', count' - 1 - (IF behind' THEN 1 ELSE 0))
<1>1. CASE count < CountMax
  <2>1. count' = count + 1 /\ n - 1 = count' - 1 - (IF behind' THEN 1 ELSE 0)
    BY <1>1 DEF IsServed, Served, Smaller, CountMax
  <2> QED BY <2>1
<1>2. CASE count = CountMax
  <2>1. count' = CountMax
    BY <1>2 DEF Smaller, CountMax
  <2>2. n - 1 >= size /\ count' - 1 - (IF behind' THEN 1 ELSE 0) >= size
    BY <1>2, <2>1 DEF IsServed, Served, CountMax
  <2>3. ASSUME NEW k \in Int, k >= size PROVE Byte(size, k) = Pad
    BY <2>3 DEF Byte
  <2>4. n - 1 \in Int /\ count' - 1 - (IF behind' THEN 1 ELSE 0) \in Int
    BY <1>2, <2>1 DEF CountMax
  <2> QED BY <2>2, <2>3, <2>4
<1> QED BY <1>1, <1>2 DEF CountMax

\* The count after a byte was read.
LEMMA ReadCounts ==
  ASSUME NEW n \in Nat, IsServed(n), c64 = "read", size \in Nat, Block \in Nat,
         count \in 0 .. CountMax, size' = size, c64' # "read", pending' = pending,
         count' = Smaller(count + 1, CountMax)
  PROVE  IsServed(n)'
BY DEF IsServed, Served, Smaller, CountMax

-----------------------------------------------------------------------------
(* A song.  The next block to be read lies two blocks beyond the one being  *)
(* sent, or one if a buffer waits to be refilled.  While it is refilled, no *)
(* more is sent than the other buffer holds, so that the interrupt never    *)
(* takes a byte that is not there yet.                                      *)

D == DOUBLE_BUFFER_SIZE
Owed == usedBuffer # turn \/ Refilling
ReadTo(p) == pos = Smaller(size, p)
Pending == IF pending THEN 1 ELSE 0

\* The buffers when none waits; when the other one does; and when the interrupt
\* has come to its end before the refill.
BothFull(base, next) ==
  /\ next = base + 2 * D
  /\ Holds(buffer[usedBuffer], size, base, D)
  /\ Holds(buffer[1 - usedBuffer], size, base + D, D)

OneEmpty(base, next) ==
  /\ Holds(buffer[1 - turn], size, next - D, D)
  /\ lag + Pending <= (IF Refilling THEN D ELSE 1)
  /\ IF usedBuffer = turn THEN next = base /\ index = 0 /\ lag >= D
                          ELSE next = base + D /\ index <= lag

\* The card, and the buffer that is being filled.
Filling(next) ==
  IF fw = "store"
  THEN /\ ReadTo(next + D) /\ got = pos - Smaller(size, next)
       /\ Holds(buffer[turn], size, next, filled)
  ELSE ReadTo(next)

Fetching(n, next) ==
  /\ currentByte = Byte(size, n) /\ latch = Byte(size, n - 1)
  /\ Filling(next)
  /\ IF Owed THEN OneEmpty(n + 1 - index, next) ELSE BothFull(n + 1 - index, next)

SongInv ==
  ~lost /\ Streaming /\ c64 \in {"setup", "play", "read"} =>
    exromLow /\ \E n, next \in Nat : IsServed(n) /\ Fetching(n, next)

\* What the rest of the invariant says of both media.
Framing ==
  /\ count \in 0 .. CountMax
  /\ media = "wav" => c64 \notin {"gap", "done", "talking"}
  /\ c64 \in {"menu", "asked"} => count = 0 /\ fw = "listening"
  /\ c64 = "asked" => exromLow
  /\ ~Streaming => ~pending
  /\ fw = "listening" /\ c64 # "asked" => ~exromLow

LEMMA SongHandleStream ==
  ASSUME TInv, Framing, HandleStream
  PROVE  SongInv'
<1>1. size \in Nat /\ D \in Nat /\ D >= 2 /\ turn \in {0, 1}
  BY Constants DEF TInv, TypeOK, D
<1>2. PICK r \in Reads(0, D) : \E s \in Reads(r.to, D) :
       /\ buffer' = [b \in {0, 1} |-> IF b = 0 THEN Padded(r, 0, "wav")
                                               ELSE Padded(s, r.to, "wav")]
       /\ pos' = s.to /\ lost' = (r.failed + s.failed > 0)
       /\ currentByte' = buffer'[0][0]
  BY DEF HandleStream, D
<1>3. PICK s \in Reads(r.to, D) :
       /\ buffer' = [b \in {0, 1} |-> IF b = 0 THEN Padded(r, 0, "wav")
                                               ELSE Padded(s, r.to, "wav")]
       /\ pos' = s.to /\ lost' = (r.failed + s.failed > 0)
       /\ currentByte' = buffer'[0][0]
  BY <1>2
<1> SUFFICES ASSUME ~lost'
    PROVE  exromLow' /\ IsServed(0)' /\ Fetching(0, 2 * D)'
  BY <1>1 DEF SongInv
<1>4. r.failed = 0 /\ s.failed = 0
  <2>1. 0 \in 0 .. size /\ r.failed \in {0, 1} /\ r.to \in 0 .. size
    BY <1>1, ReadFacts
  <2>2. s.failed \in {0, 1}
    BY <1>1, <2>1, ReadFacts
  <2>3. ~(r.failed + s.failed > 0)
    BY <1>3
  <2> QED BY <2>1, <2>2, <2>3
<1>5. c64 = "asked" /\ media = "wav" /\ usedBuffer' = 0 /\ index' = 1 /\ turn' = 0
      /\ fw' = "spin" /\ latch' = Status /\ c64' = "setup"
      /\ UNCHANGED <<media, size, count, exromLow, pending>>
  BY DEF HandleStream, FirstIndex, file, history
<1>6. exromLow' /\ IsServed(0)'
  <2>1. count = 0 /\ exromLow /\ ~pending
    BY <1>5, TInv DEF Framing, TInv, PositionsOK, Streaming
  <2>2. count' = 0 /\ exromLow' /\ ~pending' /\ c64' # "read"
    BY <1>5, <2>1
  <2>3. Served' = 0
    BY <2>2 DEF Served
  <2> QED BY <2>2, <2>3 DEF IsServed
<1>7. Indices("wav") = 0 .. D - 1 /\ "wav" \in Media /\ Smaller(size, 0) = 0
  BY <1>1 DEF Indices, D, Media, Smaller
<1>8. Holds(Padded(r, 0, "wav"), size, 0, D) /\ r.to = Smaller(size, D)
  BY <1>1, <1>4, <1>7, PaddedHolds, ReadOn
<1>9. Holds(Padded(s, r.to, "wav"), size, D, D) /\ s.to = Smaller(size, D + D)
  BY <1>1, <1>4, <1>7, <1>8, PaddedHolds, ReadOn
<1>10. buffer'[0] = Padded(r, 0, "wav") /\ buffer'[1] = Padded(s, r.to, "wav")
  BY <1>3
<1>11. currentByte' = Byte(size, 0) /\ latch' = Byte(size, 0 - 1)
  <2>1. Padded(r, 0, "wav")[0] = Byte(size, 0 + 0)
    BY <1>1, <1>8 DEF Holds
  <2> QED BY <1>3, <1>5, <1>10, <2>1 DEF Byte
<1>12. BothFull(0, 2 * D)' /\ ReadTo(2 * D)'
  BY <1>1, <1>3, <1>5, <1>8, <1>9, <1>10 DEF BothFull, ReadTo, D
<1>13. ~Owed'
  BY <1>5 DEF Owed, Refilling
<1> QED BY <1>5, <1>6, <1>11, <1>12, <1>13 DEF Fetching, Filling

LEMMA SongStoreByte ==
  ASSUME TInv, SongInv, StoreByte
  PROVE  SongInv'
<1>1. size \in Nat /\ D \in Nat /\ D >= 2 /\ turn \in {0, 1} /\ usedBuffer \in {0, 1}
      /\ lag \in Nat
  BY Constants DEF TInv, TypeOK, D
<1>2. fw = "store" /\ media = "wav" /\ Streaming /\ filled \in 0 .. D - 1
      /\ got \in Nat /\ pos \in Nat
      /\ buffer = [b \in {0, 1} |-> buffer[b]]
      /\ buffer[0] \in [0 .. D - 1 -> Bytes] /\ buffer[1] \in [0 .. D - 1 -> Bytes]
  <2>1. fw = "store" /\ media = "wav" /\ Streaming
    BY DEF StoreByte, TInv, PositionsOK, Streaming
  <2>2. filled \in 0 .. D - 1
    BY <1>1, <2>1 DEF TInv, TypeOK, BuffersOK, D
  <2>3. got \in Nat /\ pos \in Nat
    BY <1>1 DEF TInv, TypeOK
  <2>4. Indices("wav") = 0 .. D - 1
    BY DEF Indices, D
  <2>5. buffer = [b \in {0, 1} |-> buffer[b]]
        /\ buffer[0] \in [0 .. D - 1 -> Bytes] /\ buffer[1] \in [0 .. D - 1 -> Bytes]
    BY <2>1, <2>4 DEF TInv, BuffersOK
  <2> QED BY <2>1, <2>2, <2>3, <2>5
<1>3. UNCHANGED <<media, size, c64, count, usedBuffer, index, currentByte, latch, pending, lost,
                  pos, got, exromLow>>
      /\ filled' = filled + 1
  BY DEF StoreByte, file, player, card, pins
<1> SUFFICES ASSUME ~lost, c64 \in {"setup", "play", "read"}
    PROVE  exromLow' /\ \E n, next \in Nat : IsServed(n)' /\ Fetching(n, next)'
  BY <1>2, <1>3 DEF SongInv
<1>4. PICK n \in Nat, next \in Nat : exromLow /\ IsServed(n) /\ Fetching(n, next)
  BY <1>2 DEF SongInv
<1>5. exromLow' /\ IsServed(n)' /\ currentByte' = Byte(size', n) /\ latch' = Byte(size', n - 1)
  BY <1>3, <1>4 DEF IsServed, Served, CountMax, Fetching
<1>6. ReadTo(next + D) /\ got = pos - Smaller(size, next)
      /\ Holds(buffer[turn], size, next, filled) /\ OneEmpty(n + 1 - index, next) /\ Refilling
  BY <1>2, <1>4 DEF Fetching, Filling, Owed, Refilling
<1> DEFINE byte == IF filled < got THEN pos - got + filled ELSE Pad
<1>7. byte = Byte(size, next + filled)
  BY <1>1, <1>2, <1>6 DEF ReadTo, Smaller, Byte
<1>8. buffer' = [buffer EXCEPT ![turn][filled] = byte]
  BY DEF StoreByte
<1>9. buffer'[1 - turn] = buffer[1 - turn] /\ buffer'[turn] = [buffer[turn] EXCEPT ![filled] = byte]
  <2> HIDE DEF byte
  <2> QED BY <1>1, <1>2, <1>8
<1>10. Holds(buffer'[turn], size, next, filled + 1)
  <2> SUFFICES ASSUME NEW i \in 0 .. filled
      PROVE  buffer'[turn][i] = Byte(size, next + i)
    BY <1>2 DEF Holds
  <2> HIDE DEF byte
  <2>1. CASE i = filled
    BY <1>1, <1>2, <1>7, <1>9, <2>1
  <2>2. CASE i # filled
    BY <1>1, <1>2, <1>6, <1>9, <2>2 DEF Holds
  <2> QED BY <2>1, <2>2
<1>11. CASE filled + 1 < D
  <2>1. fw' = "store" /\ UNCHANGED <<turn, lag>>
    BY <1>2, <1>3, <1>11 DEF StoreByte, D
  <2>2. Filling(next)'
    BY <1>3, <1>6, <1>10, <2>1 DEF Filling, ReadTo
  <2>3. OneEmpty(n + 1 - index, next)'
    BY <1>2, <1>3, <1>6, <1>9, <2>1 DEF OneEmpty, Pending, Refilling, D
  <2>4. Owed'
    BY <2>1 DEF Owed, Refilling
  <2> QED BY <1>5, <2>2, <2>3, <2>4 DEF Fetching
<1>12. CASE filled + 1 = D
  <2>1. fw' = "spin" /\ turn' = 1 - turn /\ lag' = 0
    BY <1>3, <1>12 DEF StoreByte, D
  <2>2. ~Refilling'
    BY <2>1 DEF Refilling
  <2>3. Filling(next + D)'
    BY <1>3, <1>6, <2>1 DEF Filling, ReadTo
  <2>4. CASE usedBuffer = turn
    <3>1. Owed' /\ usedBuffer' # turn' /\ 1 - turn' = turn
      BY <1>1, <1>3, <2>1, <2>4 DEF Owed
    <3>2. next = n + 1 - index /\ index = 0
      BY <1>6, <2>4 DEF OneEmpty
    <3>3. OneEmpty(n + 1 - index, next + D)'
      BY <1>1, <1>3, <1>10, <1>12, <2>1, <2>2, <3>1, <3>2 DEF OneEmpty, Pending, D
    <3> QED BY <1>1, <1>5, <2>3, <3>1, <3>3 DEF Fetching
  <2>5. CASE usedBuffer # turn
    <3>1. ~Owed' /\ usedBuffer' = 1 - turn /\ 1 - usedBuffer' = turn
      BY <1>1, <1>3, <2>1, <2>2, <2>5 DEF Owed
    <3>2. next = n + 1 - index + D /\ Holds(buffer[1 - turn], size, next - D, D)
      BY <1>6, <2>5 DEF OneEmpty
    <3>3. index \in Nat
      BY <1>1, <1>2 DEF TInv, TypeOK, Indices, D
    <3>4. BothFull(n + 1 - index, next + D)'
      BY <1>1, <1>3, <1>9, <1>10, <1>12, <3>1, <3>2, <3>3 DEF BothFull, D
    <3> QED BY <1>1, <1>5, <2>3, <3>1, <3>4 DEF Fetching
  <2> QED BY <2>4, <2>5
<1> QED BY <1>1, <1>2, <1>11, <1>12

LEMMA SongInterrupt ==
  ASSUME TInv, SongInv, DoubleBufferedStreaming
  PROVE  SongInv'
<1>1. size \in Nat /\ D \in Nat /\ D >= 2 /\ turn \in {0, 1} /\ usedBuffer \in {0, 1}
      /\ lag \in Nat /\ index \in 0 .. D - 1 /\ Streaming /\ pending
  BY Constants DEF TInv, TypeOK, D, Indices, DoubleBufferedStreaming
<1>2. UNCHANGED <<media, size, c64, count, turn, filled, fw, buffer, lost, pos, got, exromLow>>
      /\ pending' = FALSE /\ latch' = currentByte /\ currentByte' = buffer[usedBuffer][index]
      /\ lag' = (IF usedBuffer # turn \/ Refilling THEN lag + 1 ELSE 0)
  BY DEF DoubleBufferedStreaming, file, player, card
<1> SUFFICES ASSUME ~lost, c64 \in {"setup", "play", "read"}
    PROVE  exromLow' /\ \E n, next \in Nat : IsServed(n)' /\ Fetching(n, next)'
  BY <1>1, <1>2 DEF SongInv
<1>3. PICK n \in Nat, next \in Nat : exromLow /\ IsServed(n) /\ Fetching(n, next)
  BY <1>1 DEF SongInv
<1> DEFINE base == n + 1 - index
<1>4. exromLow' /\ IsServed(n + 1)'
  <2>1. Served' = Served + 1
    BY <1>1, <1>2 DEF Served, TInv, TypeOK
  <2>2. CountMax' = CountMax
    BY <1>2 DEF CountMax
  <2> QED BY <1>1, <1>2, <1>3, <2>1, <2>2 DEF IsServed, Served, TInv, TypeOK
<1>5. Filling(next)' /\ Refilling' = Refilling
  BY <1>2, <1>3 DEF Fetching, Filling, ReadTo, Refilling
<1>6. latch' = Byte(size', (n + 1) - 1)
  BY <1>2, <1>3 DEF Fetching
<1>7. CASE ~Owed
  <2>1. BothFull(base, next) /\ usedBuffer = turn /\ ~Refilling /\ lag' = 0
    BY <1>2, <1>3, <1>7 DEF Fetching, Owed
  <2>2. currentByte' = Byte(size', n + 1)
    BY <1>1, <1>2, <2>1 DEF BothFull, Holds
  <2>3. CASE index + 1 = D
    <3>1. index' = 0 /\ usedBuffer' = 1 - usedBuffer
      BY <2>3 DEF DoubleBufferedStreaming, BufferEnd, D
    <3>2. Owed' /\ usedBuffer' # turn' /\ 1 - turn' = usedBuffer'
      BY <1>1, <1>2, <2>1, <3>1 DEF Owed
    <3>3. OneEmpty((n + 1) + 1 - index, next)'
      BY <1>1, <1>2, <1>5, <2>1, <2>3, <3>1, <3>2 DEF OneEmpty, BothFull, Pending, D
    <3> QED BY <1>4, <1>5, <1>6, <2>2, <3>2, <3>3 DEF Fetching
  <2>4. CASE index + 1 # D
    <3>1. index' = index + 1 /\ usedBuffer' = usedBuffer
      BY <2>4 DEF DoubleBufferedStreaming, BufferEnd, D
    <3>2. ~Owed'
      BY <1>2, <1>5, <2>1, <3>1 DEF Owed
    <3>3. BothFull((n + 1) + 1 - index, next)'
      BY <1>1, <1>2, <2>1, <3>1 DEF BothFull, D
    <3> QED BY <1>4, <1>5, <1>6, <2>2, <3>2, <3>3 DEF Fetching
  <2> QED BY <2>3, <2>4
<1>8. CASE Owed
  <2>1. OneEmpty(base, next) /\ lag' = lag + 1
    BY <1>2, <1>3, <1>8 DEF Fetching, Owed
  <2>2. lag + 1 <= (IF Refilling THEN D ELSE 1)
    BY <1>1, <2>1 DEF OneEmpty, Pending
  <2>3. usedBuffer # turn /\ 1 - turn = usedBuffer
    <3>1. usedBuffer = turn => lag >= D
      BY <2>1 DEF OneEmpty
    <3> QED BY <1>1, <2>2, <3>1
  <2>4. next = base + D /\ index <= lag /\ Holds(buffer[usedBuffer], size, base, D)
    BY <1>1, <2>1, <2>3 DEF OneEmpty
  <2>5. currentByte' = Byte(size', n + 1)
    BY <1>1, <1>2, <2>4 DEF Holds
  <2>6. CASE index + 1 = D
    <3>1. index' = 0 /\ usedBuffer' = turn' /\ turn' = turn
      BY <1>1, <1>2, <2>3, <2>6 DEF DoubleBufferedStreaming, BufferEnd, D
    <3>2. Refilling
      BY <1>1, <2>2, <2>4, <2>6
    <3>3. Owed'
      BY <1>5, <3>2 DEF Owed
    <3>4. Holds(buffer'[1 - turn'], size', next - D, D)
      BY <1>1, <1>2, <2>3, <2>4
    <3>5. OneEmpty((n + 1) + 1 - index, next)'
      BY <1>1, <1>2, <1>5, <2>1, <2>2, <2>4, <2>6, <3>1, <3>2, <3>4 DEF OneEmpty, Pending, D
    <3> QED BY <1>4, <1>5, <1>6, <2>5, <3>3, <3>5 DEF Fetching
  <2>7. CASE index + 1 # D
    <3>1. index' = index + 1 /\ usedBuffer' = usedBuffer /\ turn' = turn
      BY <1>2, <2>7 DEF DoubleBufferedStreaming, BufferEnd, D
    <3>2. Owed'
      BY <2>3, <3>1 DEF Owed
    <3>3. Holds(buffer'[1 - turn'], size', next - D, D)
      BY <1>1, <1>2, <2>3, <2>4
    <3>4. OneEmpty((n + 1) + 1 - index, next)'
      BY <1>1, <1>2, <1>5, <2>1, <2>2, <2>3, <2>4, <3>1, <3>3 DEF OneEmpty, Pending, D
    <3> QED BY <1>4, <1>5, <1>6, <2>5, <3>2, <3>4 DEF Fetching
  <2> QED BY <2>6, <2>7
<1> QED BY <1>7, <1>8

LEMMA SongStep ==
  ASSUME TInv, Framing, SongInv, [Next]_vars, MaxLag <= DOUBLE_BUFFER_SIZE
  PROVE  SongInv'
<1>1. size \in Nat /\ D \in Nat /\ D >= 2 /\ turn \in {0, 1} /\ usedBuffer \in {0, 1}
      /\ lag \in Nat /\ MaxLag \in Nat
  BY Constants DEF TInv, TypeOK, D
<1>2. ASSUME NEW m \in Media, NEW s \in Sizes, Ask(m, s)
      PROVE  SongInv'
  BY <1>2 DEF Ask, SongInv
<1>3. CASE HandleNonInterruptedStream
  BY <1>3 DEF HandleNonInterruptedStream, SongInv, Streaming, file
<1>4. CASE Spin \/ Compare
  <2>1. UNCHANGED <<file, player, card, buffers, pins, history>> /\ media = "wav"
        /\ fw \in {"spin", "check"} /\ fw' \in {"spin", "check", "read", "exit"}
        /\ (fw' = "read" => usedBuffer # turn)
    BY <1>4 DEF Spin, Compare, TInv, PositionsOK
  <2> SUFFICES ASSUME SongInv, ~lost, c64 \in {"setup", "play", "read"}
      PROVE  exromLow' /\ \E n, next \in Nat : IsServed(n)' /\ Fetching(n, next)'
    BY <2>1 DEF SongInv, file, player, card
  <2>2. PICK n \in Nat, next \in Nat : exromLow /\ IsServed(n) /\ Fetching(n, next)
    BY <2>1 DEF SongInv, Streaming
  <2>3. IsServed(n)' /\ (Owed' <=> Owed) /\ ~Refilling /\ Filling(next)'
    BY <2>1, <2>2 DEF IsServed, Served, CountMax, Owed, Refilling, Fetching, Filling, ReadTo,
                      file, player, card, buffers, pins, history
  <2>4. CASE Owed
    <3>1. OneEmpty(n + 1 - index, next)
      BY <2>2, <2>4 DEF Fetching
    <3>2. OneEmpty(n + 1 - index, next)'
      BY <1>1, <2>1, <2>3, <3>1 DEF OneEmpty, Pending, file, buffers, pins, history
    <3> QED BY <2>1, <2>2, <2>3, <2>4, <3>2 DEF Fetching, file, buffers, pins
  <2>5. CASE ~Owed
    <3>1. BothFull(n + 1 - index, next)'
      BY <2>1, <2>2, <2>5 DEF Fetching, BothFull, file, buffers
    <3> QED BY <2>1, <2>2, <2>3, <2>5, <3>1 DEF Fetching, file, buffers, pins
  <2> QED BY <2>4, <2>5
<1>5. CASE ReadCard
  <2>1. PICK r \in Reads(pos, D) :
          pos' = r.to /\ got' = r.bytes /\ lost' = (lost \/ r.failed = 1)
    BY <1>5 DEF ReadCard, D
  <2>2. fw = "read" /\ fw' = "store" /\ filled' = 0 /\ media = "wav"
        /\ UNCHANGED <<media, size, c64, count, buffer, turn, index, usedBuffer, currentByte,
                      latch, exromLow, pending, lag>>
    BY <1>5 DEF ReadCard, file, player, pins, history, TInv, PositionsOK
  <2> SUFFICES ASSUME ~lost', c64 \in {"setup", "play", "read"}
      PROVE  exromLow' /\ \E n, next \in Nat : IsServed(n)' /\ Fetching(n, next)'
    BY <2>2 DEF SongInv
  <2>3. PICK n \in Nat, next \in Nat : exromLow /\ IsServed(n) /\ Fetching(n, next)
    BY <2>1, <2>2 DEF SongInv, Streaming
  <2>4. ReadTo(next) /\ Owed /\ OneEmpty(n + 1 - index, next)
    BY <2>2, <2>3 DEF Fetching, Filling, Owed, Refilling
  <2>5. r.failed = 0
    <3>1. pos \in 0 .. size
      BY DEF TInv, TypeOK
    <3>2. r.failed \in {0, 1}
      BY <1>1, <3>1, ReadFacts
    <3>3. ~(r.failed = 1)
      BY <2>1
    <3> QED BY <3>2, <3>3
  <2>6. r.to = Smaller(size, next + D) /\ r.bytes = r.to - Smaller(size, next)
    <3>1. r \in Reads(Smaller(size, next), D)
      BY <2>4 DEF ReadTo
    <3> QED BY <1>1, <2>5, <3>1, ReadOn
  <2>7. Filling(next)'
    BY <2>1, <2>2, <2>6 DEF Filling, ReadTo, Holds
  <2>8. Owed' /\ Refilling' = Refilling
    BY <2>2, <2>4 DEF Owed, Refilling
  <2>9. OneEmpty(n + 1 - index, next)'
    BY <2>2, <2>4, <2>8 DEF OneEmpty, Pending
  <2>10. exromLow' /\ IsServed(n)'
    BY <2>2, <2>3 DEF IsServed, Served, CountMax
  <2> QED BY <2>2, <2>3, <2>7, <2>8, <2>9, <2>10 DEF Fetching
<1>6. CASE Refill
  BY <1>6 DEF Refill, SongInv, Streaming, TInv, PositionsOK, file
<1>7. CASE EdgeTimeout
  BY <1>7 DEF EdgeTimeout, SongInv, Streaming, TInv, PositionsOK, file
<1>8. CASE StopStreaming
  BY <1>8 DEF StopStreaming, SongInv, Streaming
<1>9. CASE StartTalking \/ Die \/ Select
  BY <1>9 DEF StartTalking, Die, Select, SongInv
\* What is left changes nothing but the place of the player and its count.
<1>10. ASSUME NEW n \in Nat, NEW next \in Nat, Fetching(n, next),
              UNCHANGED <<size, fw, pos, got, buffer, turn, filled, index, usedBuffer,
                          currentByte, latch, lag>>,
              pending' = pending \/ ~Owed
              \/ (lag + 1 <= (IF Refilling THEN D ELSE 1) /\ pending' = TRUE)
       PROVE  Fetching(n, next)'
  <2>1. Filling(next)' /\ (Owed' <=> Owed) /\ (Refilling' <=> Refilling)
    <3>1. Filling(next)
      BY <1>10 DEF Fetching
    <3> QED BY <1>10, <3>1 DEF Filling, ReadTo, Owed, Refilling
  <2>2. CASE Owed
    <3>1. lag + Pending' <= (IF Refilling THEN D ELSE 1) /\ OneEmpty(n + 1 - index, next)
      BY <1>10, <2>2 DEF Fetching, OneEmpty, Pending
    <3> QED BY <1>10, <2>1, <2>2, <3>1 DEF Fetching, OneEmpty
  <2>3. CASE ~Owed
    BY <1>10, <2>1, <2>3 DEF Fetching, BothFull
  <2> QED BY <2>2, <2>3
<1>11. CASE StartBlock \/ Tick
  <2>1. UNCHANGED <<media, size, fw, pos, got, lost, buffer, turn, filled, index, usedBuffer,
                    currentByte, latch, exromLow, pending, lag, count>>
        /\ (c64' = c64 \/ (c64' = "play" /\ c64 \in {"setup", "gap"}))
    BY <1>11 DEF StartBlock, Tick, file, card, buffers, control, pins, history
  <2> SUFFICES ASSUME ~lost, Streaming, c64' \in {"setup", "play", "read"}
      PROVE  exromLow' /\ \E n, next \in Nat : IsServed(n)' /\ Fetching(n, next)'
    BY <2>1 DEF SongInv, Streaming
  <2>2. c64 \in {"setup", "play", "read"} /\ (c64' = "read" <=> c64 = "read")
    BY <2>1 DEF Framing, Streaming
  <2>3. PICK n \in Nat, next \in Nat : exromLow /\ IsServed(n) /\ Fetching(n, next)
    BY <2>2 DEF SongInv
  <2>4. IsServed(n)' /\ Fetching(n, next)'
    BY <1>10, <2>1, <2>2, <2>3 DEF IsServed, Served, CountMax
  <2> QED BY <2>1, <2>3, <2>4
<1>12. CASE Trigger
  <2>1. UNCHANGED <<media, size, pos, got, lost, buffer, turn, filled, usedBuffer, currentByte,
                    exromLow, lag, count>>
        /\ c64 = "play" /\ c64' = "read"
    BY <1>12 DEF Trigger, file, card
  <2> SUFFICES ASSUME ~lost, Streaming'
      PROVE  exromLow' /\ \E n, next \in Nat : IsServed(n)' /\ Fetching(n, next)'
    BY <2>1 DEF SongInv
  <2>2. /\ ~pending /\ pending' = TRUE /\ UNCHANGED <<latch, fw, index>> /\ Streaming
        /\ IF Refilling THEN lag < MaxLag ELSE usedBuffer # turn => lag = 0
    <3>1. media = "wav"
      BY <2>1 DEF Streaming
    <3>2. ~(fw = "fall" /\ PollSeesAccess) /\ fw # "refill"
      BY <3>1 DEF TInv, PositionsOK
    <3>3. ~(fw = "listening" /\ UNCHANGED fw)
      BY DEF Streaming
    <3> QED BY <1>12, <3>1, <3>2, <3>3 DEF Trigger
  <2>3. PICK n \in Nat, next \in Nat : exromLow /\ IsServed(n) /\ Fetching(n, next)
    BY <2>1, <2>2 DEF SongInv
  <2>4. Fetching(n, next)'
    <3>1. ~Owed \/ lag + 1 <= (IF Refilling THEN D ELSE 1)
      BY <1>1, <2>2 DEF Owed, D
    <3> QED BY <1>10, <2>1, <2>2, <2>3, <3>1
  <2>5. IsServed(n)'
    <3>1. Served = count /\ Served' = count
      BY <1>1, <2>1, <2>2 DEF Served, Framing, CountMax
    <3> QED BY <2>1, <2>3, <3>1 DEF IsServed, CountMax
  <2> QED BY <2>1, <2>3, <2>4, <2>5
<1>13. CASE ReadByte
  <2>1. UNCHANGED <<media, size, fw, pos, got, lost, buffer, turn, filled, index, usedBuffer,
                    currentByte, latch, exromLow, pending, lag>>
        /\ c64 = "read" /\ count' = Smaller(count + 1, CountMax)
    BY <1>13 DEF ReadByte, card, buffers, control, pins
  <2> SUFFICES ASSUME ~lost, Streaming
      PROVE  exromLow' /\ \E n, next \in Nat : IsServed(n)' /\ Fetching(n, next)'
    BY <2>1 DEF SongInv, Streaming
  <2>2. PICK n \in Nat, next \in Nat : exromLow /\ IsServed(n) /\ Fetching(n, next)
    BY <2>1 DEF SongInv
  <2>3. c64' # "read"
    BY <1>13 DEF ReadByte
  <2>4. IsServed(n)'
    BY <1>1, <2>1, <2>2, <2>3, Constants, ReadCounts DEF Framing
  <2> QED BY <1>10, <2>1, <2>2, <2>4
<1>14. CASE UNCHANGED vars
  BY <1>14 DEF vars, file, player, card, buffers, control, pins, history, SongInv, Streaming,
               IsServed, Served, CountMax, Fetching, Filling, ReadTo, Owed, Refilling, OneEmpty,
               BothFull, Pending
<1> QED BY <1>2, <1>3, <1>4, <1>5, <1>6, <1>7, <1>8, <1>9, <1>11, <1>12, <1>13, <1>14,
           SongHandleStream, SongStoreByte, SongInterrupt DEF Next, Firmware, Player

-----------------------------------------------------------------------------
(* A video.  While the player keeps its times, the firmware is where the    *)
(* player is in the block, whatever either thinks of the end.               *)

Falling == fw = "fall" /\ ~firstByte
NextBlock == fw = "refill" /\ ~firstByte

PacedPlay ==
  \/ fw = "fall" /\ waited < WaitLimit /\ index = Block - wanted
  \/ NextBlock /\ wanted = Block
  \/ fw = "listening"

PacedRead ==
  \/ Falling /\ waited = 0 /\ since = 0
     /\ index = (IF wanted = 1 THEN 0 ELSE Block - wanted + 1)
  \/ NextBlock /\ wanted = 1 /\ since = 0
  \/ fw = "exit" /\ wanted = 1
  \/ fw = "listening"

PacedGap ==
  \/ Falling /\ waited <= since /\ index = 0
  \/ NextBlock
  \/ fw = "exit" /\ since = 0
  \/ fw = "listening"

Paced ==
  /\ c64 = "setup" => fw = "fall" /\ firstByte /\ waited = since /\ since <= SETUP /\ index = 0
  /\ c64 = "play" => wanted \in 1 .. Block /\ PacedPlay
  /\ c64 = "read" => wanted \in 1 .. Block /\ PacedRead
  /\ c64 = "gap" => since <= 1 /\ PacedGap

\* The latch, the block and the card, while n accesses have been served.
Showing(n) ==
  /\ c64 = "read" => latch = Byte(size, n - 1)
  /\ fw = "fall" => /\ ReadTo(n - index + Block) /\ n - index \in Nat
                    /\ Holds(buffer[0], size, n - index, Block)
  /\ fw = "refill" => ReadTo(n)

Watching == c64 \in {"setup", "play", "read", "gap"} /\ fw # "listening"

ShowInv ==
  media = "cvd" /\ ~late =>
    /\ Paced
    /\ ~lost /\ Watching => exromLow /\ \E n \in Nat : IsServed(n) /\ Showing(n)

LEMMA PacedStep ==
  ASSUME TInv, Framing, [Next]_vars, media' = "cvd", ~late', media = "cvd" /\ ~late => Paced,
         SETUP < FIRST_TIMEOUT, 1 < FALL_TIMEOUT
  PROVE  Paced'
<1>1. Block \in Nat \ {0} /\ SETUP \in Nat \ {0} /\ FIRST_TIMEOUT \in Nat /\ FALL_TIMEOUT \in Nat
      /\ since \in Nat /\ waited \in Nat /\ wanted \in 0 .. Block /\ firstByte \in BOOLEAN
  BY Constants DEF TInv, TypeOK
<1>2. ASSUME NEW m \in Media, NEW s \in Sizes, Ask(m, s)
      PROVE  Paced'
  BY <1>2 DEF Ask, Paced
<1>3. CASE HandleStream \/ Spin \/ Compare \/ ReadCard \/ StoreByte \/ DoubleBufferedStreaming
  BY <1>3 DEF HandleStream, Spin, Compare, ReadCard, StoreByte, DoubleBufferedStreaming,
              TInv, PositionsOK, Streaming, file
<1>4. CASE HandleNonInterruptedStream
  BY <1>1, <1>4 DEF HandleNonInterruptedStream, Paced
<1>5. CASE Refill
  <2>1. fw = "refill" /\ fw' = "fall" /\ index' = 0 /\ waited' = 0
        /\ UNCHANGED <<media, late, c64, wanted, since, firstByte>>
    BY <1>5 DEF Refill, file, player, history
  <2> QED BY <1>1, <2>1 DEF Paced, PacedPlay, PacedRead, PacedGap, Falling, NextBlock, WaitLimit
<1>6. CASE EdgeTimeout
  <2>1. fw = "fall" /\ fw' = "exit" /\ waited >= WaitLimit
        /\ UNCHANGED <<media, late, c64, wanted, since, firstByte>>
    BY <1>6 DEF EdgeTimeout, file, player, history
  <2> QED BY <1>1, <2>1 DEF Paced, PacedPlay, PacedRead, PacedGap, Falling, NextBlock, WaitLimit
<1>7. CASE StopStreaming
  <2>1. fw = "exit" /\ fw' = "listening" /\ UNCHANGED <<media, late, c64, wanted, since>>
    BY <1>7 DEF StopStreaming, file, player, history
  <2> QED BY <2>1 DEF Paced, PacedPlay, PacedRead, PacedGap, Falling, NextBlock
<1>8. CASE StartBlock
  <2>1. /\ c64 = "setup" \/ (c64 = "gap" /\ since = 1)
        /\ c64' = "play" /\ wanted' = IF media = "cvd" THEN Block ELSE 1
        /\ UNCHANGED <<media, late, fw, firstByte, waited, index>>
    BY <1>8 DEF StartBlock, file, buffers, control, history
  <2> QED BY <1>1, <2>1 DEF Paced, PacedPlay, PacedGap, Falling, NextBlock, WaitLimit
<1>9. CASE StartTalking \/ Die \/ Select
  BY <1>9 DEF StartTalking, Die, Select, Paced
<1>10. CASE Trigger
  <2>1. c64 = "play" /\ c64' = "read" /\ since' = 0 /\ UNCHANGED <<media, wanted>>
    BY <1>10 DEF Trigger, file
  <2>2. ~late /\ wanted \in 1 .. Block /\ PacedPlay /\ ~Streaming
    <3>1. ~late
      BY <1>10 DEF Trigger, PollSeesAccess
    <3>2. Paced /\ ~Streaming
      BY <2>1, <3>1 DEF Streaming
    <3> QED BY <2>1, <3>1, <3>2 DEF Paced
  <2>3. CASE fw = "fall" /\ PollSeesAccess
    <3>1. index = Block - wanted
      BY <2>2, <2>3 DEF PacedPlay, NextBlock
    <3>2. CASE wanted = 1
      <4>1. fw' = (IF stopAfter THEN "exit" ELSE "refill") /\ firstByte' = FALSE
        BY <1>1, <2>2, <2>3, <3>1, <3>2 DEF PollSeesAccess
      <4> QED BY <1>1, <2>1, <2>2, <3>2, <4>1 DEF Paced, PacedRead, NextBlock
    <3>3. CASE wanted # 1
      <4>1. fw' = "fall" /\ firstByte' = FALSE /\ waited' = 0 /\ index' = index + 1
        BY <1>1, <2>2, <2>3, <3>1, <3>3 DEF PollSeesAccess
      <4> QED BY <1>1, <2>1, <2>2, <3>1, <3>3, <4>1 DEF Paced, PacedRead, Falling
    <3> QED BY <3>2, <3>3
  <2>4. CASE fw = "listening" /\ UNCHANGED fw
    BY <2>1, <2>2, <2>4 DEF Paced, PacedRead
  <2> QED BY <1>10, <2>2, <2>3, <2>4 DEF Trigger, PacedPlay, NextBlock
<1>11. CASE ReadByte
  <2>1. UNCHANGED <<media, late, fw, firstByte, waited, index>> /\ c64 = "read"
    BY <1>11 DEF ReadByte, buffers, control
  <2>2. wanted \in 1 .. Block /\ PacedRead
    BY <2>1 DEF Paced
  <2>3. CASE wanted > 1
    <3>1. c64' = "play" /\ wanted' = wanted - 1
      BY <1>11, <2>1, <2>3 DEF ReadByte
    <3> QED BY <1>1, <2>1, <2>2, <2>3, <3>1
            DEF Paced, PacedPlay, PacedRead, Falling, NextBlock, WaitLimit
  <2>4. CASE wanted = 1
    <3>1. c64' \in {"done", "gap"} /\ since' = 0
      BY <1>11, <2>1, <2>4 DEF ReadByte
    <3> QED BY <1>1, <2>1, <2>2, <2>4, <3>1 DEF Paced, PacedGap, PacedRead, Falling, NextBlock
  <2> QED BY <1>1, <2>2, <2>3, <2>4
<1>12. CASE Tick
  <2>1. /\ PlayerInTime /\ fw # "exit"
        /\ since' = IF c64 = "off" THEN since ELSE since + 1
        /\ UNCHANGED <<media, late, c64, wanted, fw, firstByte, index>>
        /\ (fw = "fall" => waited' = waited + 1)
    BY <1>12 DEF Tick, FirmwareInTime, file, buffers, history, TInv, PositionsOK
  <2>2. c64 \notin {"play", "read"} /\ (c64 = "setup" => since < SETUP) /\ (c64 = "gap" => since < 1)
    BY <2>1 DEF PlayerInTime
  <2> QED BY <1>1, <2>1, <2>2 DEF Paced, PacedGap, Falling, NextBlock
<1>13. CASE UNCHANGED vars
  BY <1>13 DEF vars, file, player, card, buffers, control, history, Paced, PacedPlay, PacedRead,
               PacedGap, Falling, NextBlock, WaitLimit
<1> QED BY <1>2, <1>3, <1>4, <1>5, <1>6, <1>7, <1>8, <1>9, <1>10, <1>11, <1>12, <1>13
        DEF Next, Firmware, Player

LEMMA NothingRead == ASSUME NEW s \in Nat PROVE 0 \in 0 .. s + Block + 2
BY Constants

LEMMA FramingStep ==
  ASSUME TInv, Framing, [Next]_vars
  PROVE  Framing'
<1>1. size \in Nat /\ Block \in Nat
  BY Constants DEF TInv, TypeOK
<1>2. ASSUME NEW m \in Media, NEW s \in Sizes, Ask(m, s)
      PROVE  Framing'
  <2>1. fw = "listening" /\ UNCHANGED <<fw, pending, count>> /\ c64 = "menu" /\ c64' = "asked"
        /\ exromLow' = TRUE
    BY <1>2 DEF Ask, control, history
  <2>2. ~Streaming /\ ~pending'
    BY <2>1 DEF Framing, Streaming
  <2>3. count' \in 0 .. CountMax'
    <3>1. count' = 0
      BY <2>1 DEF Framing
    <3>2. size' \in Nat
      BY <1>2, Constants DEF Ask
    <3>3. CountMax' = size' + Block + 2
      BY DEF CountMax
    <3>4. 0 \in 0 .. size' + Block + 2
      BY <3>2, NothingRead
    <3> QED BY <3>1, <3>3, <3>4
  <2> QED BY <2>1, <2>2, <2>3 DEF Framing
<1>3. CASE HandleStream \/ HandleNonInterruptedStream
  BY <1>3 DEF HandleStream, HandleNonInterruptedStream, Framing, Streaming, CountMax, file,
              history, TInv, PositionsOK
<1>4. CASE Spin \/ Compare \/ ReadCard \/ StoreByte \/ DoubleBufferedStreaming
  <2>1. Streaming /\ Streaming' /\ UNCHANGED <<media, size, c64, count, exromLow>>
        /\ fw # "listening" /\ fw' # "listening"
    BY <1>4 DEF Spin, Compare, ReadCard, StoreByte, DoubleBufferedStreaming, Streaming, TInv,
                PositionsOK, file, player, pins, history
  <2> QED BY <2>1 DEF Framing, CountMax
<1>5. CASE Refill \/ EdgeTimeout
  <2>1. UNCHANGED <<media, size, c64, count, exromLow, pending>> /\ media = "cvd"
        /\ fw # "listening" /\ fw' # "listening"
    BY <1>5 DEF Refill, EdgeTimeout, TInv, PositionsOK, file, player, pins, history
  <2> QED BY <2>1 DEF Framing, Streaming, CountMax
<1>6. CASE StopStreaming
  BY <1>6 DEF StopStreaming, Framing, CountMax, file, player, history
<1>7. CASE StartBlock \/ StartTalking \/ Die
  <2>1. UNCHANGED <<media, size, fw, count, exromLow, pending>> /\ c64' \in {"play", "talking", "off"}
        /\ c64 \notin {"menu"} /\ (c64 = "asked" => fw # "listening")
        /\ (c64' = "talking" => c64 = "done")
    BY <1>7 DEF StartBlock, StartTalking, Die, file, control, pins, history
  <2> QED BY <2>1 DEF Framing, Streaming, CountMax
<1>8. CASE Trigger
  <2>1. UNCHANGED <<media, size, count, exromLow>> /\ c64 = "play" /\ c64' = "read"
    BY <1>8 DEF Trigger, file
  <2>2. fw' = "listening" => fw = "listening"
    BY <1>8 DEF Trigger, PollSeesAccess
  <2>3. ~Streaming' => ~pending'
    <3>1. CASE Streaming /\ UNCHANGED fw
      BY <2>1, <3>1 DEF Streaming
    <3>2. CASE fw = "fall" /\ PollSeesAccess
      BY <3>2 DEF PollSeesAccess, Framing, Streaming
    <3>3. CASE UNCHANGED <<fw, pending>>
      BY <2>1, <3>3 DEF Framing, Streaming
    <3> QED BY <1>8, <3>1, <3>2, <3>3 DEF Trigger
  <2> QED BY <2>1, <2>2, <2>3 DEF Framing, CountMax
<1>9. CASE ReadByte
  <2>1. UNCHANGED <<media, size, fw, exromLow, pending>> /\ c64 = "read"
        /\ count' = Smaller(count + 1, CountMax) /\ c64' \in {"play", "done", "gap"}
        /\ (media = "wav" => c64' = "play")
    BY <1>9 DEF ReadByte, card, buffers, control, pins
  <2>2. count' \in 0 .. CountMax'
    BY <1>1, <2>1 DEF Framing, CountMax, Smaller
  <2> QED BY <2>1, <2>2 DEF Framing, Streaming
<1>10. CASE Select
  <2>1. fw = "listening" /\ c64 # "asked" /\ c64' = "menu" /\ count' = 0
        /\ UNCHANGED <<media, size, fw, exromLow, pending>>
    BY <1>10 DEF Select, control, pins
  <2> QED BY <1>1, <2>1 DEF Framing, Streaming, CountMax
<1>11. CASE Tick \/ UNCHANGED vars
  <2>1. UNCHANGED <<media, size, c64, fw, count, exromLow, pending>>
    BY <1>11 DEF Tick, vars, file, player, control, pins, history
  <2> QED BY <2>1 DEF Framing, Streaming, CountMax
<1> QED BY <1>2, <1>3, <1>4, <1>5, <1>6, <1>7, <1>8, <1>9, <1>10, <1>11
        DEF Next, Firmware, Player

LEMMA ShowStep ==
  ASSUME TInv, Framing, ShowInv, [Next]_vars, SETUP < FIRST_TIMEOUT, 1 < FALL_TIMEOUT
  PROVE  ShowInv'
<1>1. size \in Nat /\ Block \in Nat \ {0} /\ count \in Nat /\ pos \in 0 .. size
  BY Constants DEF TInv, TypeOK, Framing, CountMax
<1> SUFFICES ASSUME media' = "cvd", ~late'
    PROVE  /\ Paced'
           /\ ~lost' /\ Watching' => exromLow' /\ \E n \in Nat : IsServed(n)' /\ Showing(n)'
  BY DEF ShowInv
<1>2. Paced'
  BY PacedStep DEF ShowInv
<1> SUFFICES ASSUME ~lost', Watching'
    PROVE  exromLow' /\ \E n \in Nat : IsServed(n)' /\ Showing(n)'
  BY <1>2
<1>3. ASSUME NEW m \in Media, NEW s \in Sizes, Ask(m, s)
      PROVE  FALSE
  BY <1>3 DEF Ask, Watching
<1>4. CASE HandleStream \/ Spin \/ Compare \/ ReadCard \/ StoreByte \/ DoubleBufferedStreaming
  BY <1>4 DEF HandleStream, Spin, Compare, ReadCard, StoreByte, DoubleBufferedStreaming,
              TInv, PositionsOK, Streaming, file
<1>5. CASE HandleNonInterruptedStream
  <2>1. PICK r \in Reads(0, Block) :
          /\ buffer' = [buffer EXCEPT ![0] = Padded(r, 0, "cvd")]
          /\ pos' = r.to /\ lost' = (r.failed > 0)
    BY <1>5 DEF HandleNonInterruptedStream
  <2>2. c64 = "asked" /\ c64' = "setup" /\ fw' = "fall" /\ index' = 0
        /\ UNCHANGED <<media, size, count, exromLow, pending>>
    BY <1>5 DEF HandleNonInterruptedStream, file, history
  <2>3. r.failed = 0
    <3>1. 0 \in 0 .. size /\ r.failed \in {0, 1}
      BY <1>1, ReadFacts
    <3>2. ~(r.failed > 0)
      BY <2>1
    <3> QED BY <3>1, <3>2
  <2>4. Smaller(size, 0) = 0 /\ Indices("cvd") = 0 .. Block - 1 /\ "cvd" \in Media
    BY <1>1 DEF Smaller, Indices, Media
  <2>5. Holds(Padded(r, 0, "cvd"), size, 0, Block) /\ r.to = Smaller(size, 0 + Block)
    BY <1>1, <2>3, <2>4, PaddedHolds, ReadOn
  <2>6. buffer'[0] = Padded(r, 0, "cvd")
    BY <2>1 DEF TInv, BuffersOK
  <2>7. count = 0 /\ exromLow /\ ~pending
    BY <2>2 DEF Framing, Streaming
  <2>8. IsServed(0)'
    <3>1. count' = 0 /\ ~pending' /\ c64' # "read"
      BY <2>2, <2>7
    <3>2. Served' = 0
      BY <3>1 DEF Served
    <3> QED BY <3>1, <3>2 DEF IsServed
  <2>9. Showing(0)'
    BY <1>1, <2>1, <2>2, <2>5, <2>6 DEF Showing, ReadTo
  <2> QED BY <2>2, <2>7, <2>8, <2>9
<1>6. CASE Refill
  <2>1. PICK r \in Reads(pos, Block) :
          /\ buffer' = [buffer EXCEPT ![0] = Padded(r, pos, "cvd")]
          /\ pos' = r.to /\ lost' = (lost \/ r.failed = 1)
    BY <1>6 DEF Refill
  <2>2. fw = "refill" /\ fw' = "fall" /\ index' = 0
        /\ UNCHANGED <<media, size, c64, count, latch, exromLow, pending, late>>
    BY <1>6 DEF Refill, file, player, pins, history
  <2>3. PICK n \in Nat : exromLow /\ IsServed(n) /\ Showing(n)
    BY <2>1, <2>2 DEF ShowInv, Watching
  <2>4. r.failed = 0
    <3>1. r.failed \in {0, 1}
      BY <1>1, ReadFacts
    <3>2. ~(r.failed = 1)
      BY <2>1
    <3> QED BY <3>1, <3>2
  <2>5. pos = Smaller(size, n) /\ Indices("cvd") = 0 .. Block - 1 /\ "cvd" \in Media
    BY <1>1, <2>2, <2>3 DEF Showing, ReadTo, Indices, Media
  <2>6. Holds(Padded(r, pos, "cvd"), size, n, Block) /\ r.to = Smaller(size, n + Block)
    BY <1>1, <2>4, <2>5, PaddedHolds, ReadOn
  <2>7. buffer'[0] = Padded(r, pos, "cvd")
    BY <2>1 DEF TInv, BuffersOK
  <2>8. Showing(n)'
    BY <1>1, <2>1, <2>2, <2>3, <2>6, <2>7 DEF Showing, ReadTo
  <2>9. IsServed(n)'
    BY <2>2, <2>3 DEF IsServed, Served, CountMax
  <2> QED BY <2>2, <2>3, <2>8, <2>9
<1>7. CASE EdgeTimeout \/ StartBlock \/ Tick \/ UNCHANGED vars
  <2>1. UNCHANGED <<media, size, count, latch, exromLow, pending, late, lost, pos, buffer, index>>
        /\ (fw' = fw \/ (fw = "fall" /\ fw' = "exit"))
        /\ (c64' = c64 \/ (c64 \in {"setup", "gap"} /\ c64' = "play"))
    BY <1>7 DEF EdgeTimeout, StartBlock, Tick, vars, file, player, card, buffers, control, pins,
                history
  <2>2. PICK n \in Nat : exromLow /\ IsServed(n) /\ Showing(n)
    BY <2>1 DEF ShowInv, Watching
  <2>3. (c64' = "read" <=> c64 = "read") /\ fw' \in {fw, "exit"}
    BY <2>1
  <2>4. IsServed(n)' /\ Showing(n)'
    BY <2>1, <2>2, <2>3 DEF IsServed, Served, CountMax, Showing, ReadTo
  <2> QED BY <2>1, <2>2, <2>4
<1>8. CASE StopStreaming \/ StartTalking \/ Die \/ Select
  BY <1>8 DEF StopStreaming, StartTalking, Die, Select, Watching
<1>9. CASE Trigger
  <2>1. UNCHANGED <<media, size, count, lost, exromLow, pos, buffer>>
        /\ c64 = "play" /\ c64' = "read"
    BY <1>9 DEF Trigger, file, card
  <2>2. ~late /\ ~Streaming
    <3>1. ~late
      BY <1>9 DEF Trigger, PollSeesAccess
    <3> QED BY <2>1, <3>1 DEF Streaming
  <2>3. Paced /\ PacedPlay
    BY <2>1, <2>2 DEF ShowInv, Paced
  <2>4. fw = "fall" /\ PollSeesAccess
    <3>1. fw # "refill" \/ (fw = "fall" /\ PollSeesAccess)
      BY <1>9, <2>2 DEF Trigger
    <3>2. fw = "listening" => UNCHANGED fw
      BY <1>9 DEF Trigger
    <3>3. fw # "listening"
      BY <3>2 DEF Watching
    <3> QED BY <1>9, <2>2, <2>3, <3>1, <3>3 DEF Trigger, PacedPlay, NextBlock
  <2>5. PICK n \in Nat : exromLow /\ IsServed(n) /\ Showing(n)
    BY <2>1, <2>2, <2>4 DEF ShowInv, Watching
  <2>6. index \in 0 .. Block - 1 /\ n - index \in Nat /\ ReadTo(n - index + Block)
        /\ Holds(buffer[0], size, n - index, Block)
    BY <1>1, <2>1, <2>4, <2>5 DEF Showing, TInv, TypeOK, Indices
  <2>7. latch' = Byte(size', n + 1 - 1)
    BY <1>1, <2>1, <2>4, <2>6 DEF PollSeesAccess, Holds
  <2>8. Showing(n + 1)'
    <3>1. CASE index + 1 = Block
      <4>1. fw' \in {"exit", "refill"} /\ n - index + Block = n + 1
        BY <1>1, <2>4, <2>6, <3>1 DEF PollSeesAccess
      <4> QED BY <2>1, <2>6, <2>7, <4>1 DEF Showing, ReadTo
    <3>2. CASE index + 1 # Block
      <4>1. fw' = "fall" /\ index' = index + 1 /\ (n + 1) - index' = n - index
        BY <1>1, <2>4, <2>6, <3>2 DEF PollSeesAccess
      <4> QED BY <2>1, <2>6, <2>7, <4>1 DEF Showing, ReadTo
    <3> QED BY <3>1, <3>2
  <2>9. IsServed(n + 1)'
    <3>1. ~pending /\ ~pending'
      BY <2>2, <2>4 DEF PollSeesAccess, Framing
    <3>2. Served = count /\ Served' = count + 1
      BY <1>1, <2>1, <3>1 DEF Served
    <3> QED BY <1>1, <2>1, <2>5, <3>2 DEF IsServed, CountMax
  <2> QED BY <2>1, <2>5, <2>8, <2>9
<1>10. CASE ReadByte
  <2>1. UNCHANGED <<media, size, fw, pos, lost, late, buffer, index, latch, exromLow, pending>>
        /\ c64 = "read" /\ c64' # "read" /\ count' = Smaller(count + 1, CountMax)
    BY <1>10 DEF ReadByte, card, buffers, control, pins
  <2>2. PICK n \in Nat : exromLow /\ IsServed(n) /\ Showing(n)
    BY <2>1 DEF ShowInv, Watching
  <2>3. IsServed(n)'
    BY <1>1, <2>1, <2>2, ReadCounts DEF Framing
  <2>4. Showing(n)'
    BY <2>1, <2>2 DEF Showing, ReadTo
  <2> QED BY <2>1, <2>2, <2>3, <2>4
<1> QED BY <1>3, <1>4, <1>5, <1>6, <1>7, <1>8, <1>9, <1>10 DEF Next, Firmware, Player

-----------------------------------------------------------------------------
(* What is heard.                                                           *)

LEMMA OrderInit == Init => Framing /\ SongInv /\ ShowInv /\ InOrder
<1> SUFFICES ASSUME Init PROVE Framing /\ SongInv /\ ShowInv /\ InOrder
  OBVIOUS
<1>1. size \in Nat /\ Block \in Nat
  BY Constants DEF Init
<1>2. c64 = "menu" /\ fw = "listening" /\ count = 0 /\ ~exromLow /\ ~pending
  BY DEF Init
<1>3. count \in 0 .. CountMax
  BY <1>1, <1>2 DEF CountMax
<1>4. Framing
  BY <1>2, <1>3 DEF Framing
<1>5. SongInv /\ ShowInv /\ InOrder
  BY <1>2 DEF SongInv, ShowInv, Paced, Watching, InOrder
<1> QED BY <1>4, <1>5

\* The byte that is read is the one the latch should have, or is read where the
\* cartridge is hidden, and then the stream was cut off or this was the last.
LEMMA ReadsInOrder ==
  ASSUME TInv, EndInv, Framing, SongInv, ShowInv, ReadByte
  PROVE  InOrder'
<1>1. size \in Nat /\ Block \in Nat /\ count \in 0 .. CountMax /\ pending \in BOOLEAN
      /\ media \in Media
  BY Constants DEF TInv, TypeOK, Framing
<1>2. UNCHANGED <<media, size, fw, lost, late, exromLow, pending>>
      /\ c64 = "read" /\ behind' = pending /\ count' = Smaller(count + 1, CountMax)
      /\ heard' = (IF exromLow THEN latch ELSE Garbage)
  BY DEF ReadByte, card, buffers, control, pins
<1> SUFFICES ASSUME ~lost, ~late
    PROVE  \/ heard' = Byte(size', count' - 1 - (IF behind' THEN 1 ELSE 0))
           \/ heard' = Garbage /\ media' = "wav" /\ ~Streaming'
           \/ heard' = Garbage /\ media' = "cvd"
              /\ (remaining' = Unknown \/ c64' \in {"done", "talking", "menu", "off"})
  BY <1>2 DEF InOrder, ByteAt, Byte
<1>3. ASSUME NEW n \in Nat, IsServed(n)
      PROVE  Byte(size, n - 1) = Byte(size', count' - 1 - (IF behind' THEN 1 ELSE 0))
  BY <1>1, <1>2, <1>3, HeardRight
<1>4. CASE media = "wav" /\ Streaming
  <2>1. PICK n \in Nat, next \in Nat : exromLow /\ IsServed(n) /\ Fetching(n, next)
    BY <1>2, <1>4 DEF SongInv
  <2>2. heard' = Byte(size, n - 1)
    BY <1>2, <2>1 DEF Fetching
  <2> QED BY <1>3, <2>1, <2>2
<1>5. CASE media = "wav" /\ ~Streaming
  <2>1. fw = "listening" /\ ~Streaming'
    BY <1>2, <1>5 DEF Streaming, TInv, TypeOK, PositionsOK
  <2> QED BY <1>2, <1>5, <2>1 DEF Framing
<1>6. CASE media = "cvd" /\ fw # "listening"
  <2>1. PICK n \in Nat : exromLow /\ IsServed(n) /\ Showing(n)
    BY <1>2, <1>6 DEF ShowInv, Watching
  <2>2. heard' = Byte(size, n - 1)
    BY <1>2, <2>1 DEF Showing
  <2> QED BY <1>3, <2>1, <2>2
<1>7. CASE media = "cvd" /\ fw = "listening"
  <2>1. heard' = Garbage
    BY <1>2, <1>7 DEF Framing
  <2>2. CASE remaining = Unknown
    BY <1>2, <1>7, <2>1, <2>2 DEF ReadByte
  <2>3. CASE remaining # Unknown
    <3>1. Latched
      BY <1>2, <1>7, <2>3 DEF EndInv, InStep
    <3>2. wanted = 1 /\ remaining <= Block
      BY <1>1, <1>7, <3>1 DEF Latched, Waiting, Between
    <3>3. c64' = "done"
      BY <1>7, <2>3, <3>2 DEF ReadByte, IsLastBlock
    <3> QED BY <1>2, <1>7, <2>1, <3>3
  <2> QED BY <2>2, <2>3
<1> QED BY <1>1, <1>4, <1>5, <1>6, <1>7 DEF Media

LEMMA InOrderStep ==
  ASSUME TInv, EndInv, Framing, SongInv, ShowInv, InOrder, [Next]_vars
  PROVE  InOrder'
<1>1. ASSUME count' = 0
      PROVE  InOrder'
  BY <1>1 DEF InOrder
\* What is neither heard nor forgotten stays as it was.
<1>2. ASSUME UNCHANGED <<media, size, count, heard, behind>>,
             remaining = Unknown => remaining' = Unknown,
             ~lost' => ~lost, ~late' => ~late,
             media = "wav" /\ ~Streaming => ~Streaming',
             c64 \in {"done", "talking", "menu", "off"} =>
               c64' \in {"done", "talking", "menu", "off"}
      PROVE  InOrder'
  <2>1. media' = "wav" => media = "wav"
    BY <1>2
  <2> QED BY <1>2, <2>1 DEF InOrder, ByteAt
<1>3. ASSUME NEW m \in Media, NEW s \in Sizes, Ask(m, s)
      PROVE  InOrder'
  BY <1>1, <1>3 DEF Ask, Framing, history
<1>4. CASE HandleStream \/ HandleNonInterruptedStream
  BY <1>1, <1>4 DEF HandleStream, HandleNonInterruptedStream, Framing, history
<1>5. CASE Spin \/ Compare \/ StoreByte \/ DoubleBufferedStreaming \/ EdgeTimeout
           \/ StopStreaming \/ StartBlock \/ StartTalking \/ Die \/ Tick
  <2>1. UNCHANGED <<media, size, count, heard, behind, remaining, lost, late>>
    BY <1>5 DEF Spin, Compare, StoreByte, DoubleBufferedStreaming, EdgeTimeout, StopStreaming,
                StartBlock, StartTalking, Die, Tick, file, card, history
  <2>2. c64' = c64 \/ (c64 \in {"setup", "gap"} /\ c64' = "play") \/ c64' \in {"talking", "off"}
    BY <1>5 DEF Spin, Compare, StoreByte, DoubleBufferedStreaming, EdgeTimeout, StopStreaming,
                StartBlock, StartTalking, Die, Tick, player
  <2>3. Streaming' => Streaming
    <3>1. CASE Spin \/ Compare \/ StoreByte
      BY <2>1, <3>1 DEF Spin, Compare, StoreByte, Streaming
    <3>2. CASE DoubleBufferedStreaming \/ EdgeTimeout \/ StopStreaming
      BY <2>1, <3>2 DEF DoubleBufferedStreaming, EdgeTimeout, StopStreaming, Streaming, TInv,
                        PositionsOK
    <3>3. CASE StartBlock \/ StartTalking \/ Die \/ Tick
      BY <2>1, <3>3 DEF StartBlock, StartTalking, Die, Tick, control, Streaming
    <3> QED BY <1>5, <3>1, <3>2, <3>3
  <2> QED BY <1>2, <2>1, <2>2, <2>3
<1>6. CASE ReadCard \/ Refill
  <2>1. UNCHANGED <<media, size, count, heard, behind, remaining, late, c64>>
        /\ (~lost' => ~lost)
    BY <1>6 DEF ReadCard, Refill, file, player, history
  <2>2. Streaming' => Streaming
    BY <1>6, <2>1 DEF ReadCard, Refill, Streaming, TInv, PositionsOK
  <2> QED BY <1>2, <2>1, <2>2
<1>7. CASE Trigger
  <2>1. UNCHANGED <<media, size, count, heard, behind, remaining, lost>> /\ c64 = "play"
    BY <1>7 DEF Trigger, file, card
  <2>2. ~late' => ~late
    BY <1>7 DEF Trigger, PollSeesAccess
  <2>3. CASE media = "wav"
    <3>1. fw # "fall"
      BY <2>3 DEF TInv, PositionsOK
    <3>2. fw' = fw
      BY <1>7, <3>1 DEF Trigger
    <3> QED BY <1>2, <2>1, <2>2, <3>2 DEF Streaming
  <2>4. CASE media # "wav"
    BY <1>2, <2>1, <2>2, <2>4
  <2> QED BY <2>3, <2>4
<1>8. CASE ReadByte
  BY <1>8, ReadsInOrder
<1>9. CASE Select
  BY <1>1, <1>9 DEF Select
<1>10. CASE UNCHANGED vars
  BY <1>2, <1>10 DEF vars, file, player, card, control, history, Streaming
<1> QED BY <1>3, <1>4, <1>5, <1>6, <1>7, <1>8, <1>9, <1>10 DEF Next, Firmware, Player

\* A song and a video are heard in order, nothing left out or twice, for every size
\* of a buffer and of a block and every length of a file, when no more samples are
\* played during a refill than a buffer holds and the timeouts are longer than the
\* player's pauses.
THEOREM InOrderHolds ==
  ASSUME SETUP < FIRST_TIMEOUT, 1 < FALL_TIMEOUT, MaxLag <= DOUBLE_BUFFER_SIZE
  PROVE  Spec => []InOrder
<1> DEFINE IInv == TInv /\ EndInv /\ Framing /\ SongInv /\ ShowInv /\ InOrder
<1>1. Init => IInv
  BY TypeInit, EndInit, OrderInit
<1>2. IInv /\ [Next]_vars => IInv'
  <2> SUFFICES ASSUME IInv, [Next]_vars PROVE IInv'
    OBVIOUS
  <2>1. TInv' /\ EndInv'
    BY TypeStep, EndStep
  <2>2. Framing' /\ SongInv' /\ ShowInv'
    BY FramingStep, SongStep, ShowStep
  <2>3. InOrder'
    BY InOrderStep
  <2> QED BY <2>1, <2>2, <2>3
<1>3. IInv => InOrder
  OBVIOUS
<1> QED BY <1>1, <1>2, <1>3, PTL DEF Spec

===============================================================================
