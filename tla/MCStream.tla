------------------------------ MODULE MCStream -------------------------------
(* Instances of Stream: files of no byte up to two blocks or five buffers.   *)
EXTENDS Stream

MCSizes == {0, 3, 4, 6}
===============================================================================
