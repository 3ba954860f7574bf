---------------------------- MODULE MCByteQueue ----------------------------
(***************************************************************************)
(* ByteQueue with a ring of four slots: it wraps, fills and overruns, with  *)
(* two byte values to tell a byte from its neighbour.                       *)
(***************************************************************************)
EXTENDS ByteQueue
=============================================================================
