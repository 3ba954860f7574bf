--------------------------- MODULE MCKernalBridge ---------------------------
(* Programs of every alignment under, at and over the bridge.               *)
EXTENDS KernalBridge

SomePrograms == [start : {4, 5, 7, 10, 16, 20, 21}, size : {2, 3, 6, 9, 12, 14, 16, 18, 19, 20, 30}]
=============================================================================
