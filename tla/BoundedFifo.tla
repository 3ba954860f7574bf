---------------------------- MODULE BoundedFifo ----------------------------
(***************************************************************************)
(* What the receive queue promises to the command reader: a first-in       *)
(* first-out buffer of Capacity bytes.  A byte offered to a full buffer is *)
(* discarded and leaves the buffer as it was; Clear empties it.            *)
(***************************************************************************)
EXTENDS Integers, Sequences

CONSTANTS Bytes,     \* the byte values
          Capacity   \* how many bytes the buffer holds

VARIABLES queue,     \* the bytes held, oldest first
          lastRead,  \* what the last Get returned: a byte, or Empty
          overrun    \* a byte was discarded since the last Clear

fifoVars == <<queue, lastRead, overrun>>

\* Read() returns -1 when there is nothing to read.
Empty == -1

Init ==
  /\ queue = << >>
  /\ lastRead = Empty
  /\ overrun = FALSE

Put(b) ==
  /\ UNCHANGED lastRead
  /\ \/ /\ Len(queue) < Capacity
        /\ queue' = Append(queue, b)
        /\ UNCHANGED overrun
     \/ /\ Len(queue) = Capacity
        /\ overrun' = TRUE
        /\ UNCHANGED queue

Get ==
  /\ UNCHANGED overrun
  /\ \/ /\ queue = << >>
        /\ lastRead' = Empty
        /\ UNCHANGED queue
     \/ /\ queue # << >>
        /\ lastRead' = Head(queue)
        /\ queue' = Tail(queue)

Clear ==
  /\ queue' = << >>
  /\ overrun' = FALSE
  /\ UNCHANGED lastRead

Next == (\E b \in Bytes : Put(b)) \/ Get \/ Clear

Spec == Init /\ [][Next]_fifoVars
=============================================================================
