----------------------------- MODULE MCReceiver -----------------------------
(***************************************************************************)
(* Receiver with bytes of two bits.  The identifiers are three different    *)
(* bytes; one command has an argument, one has none, and one byte is no     *)
(* command.                                                                 *)
(***************************************************************************)
EXTENDS Receiver, TLC

Identifier1 == {0}
Identifier2 == {1}
Identifier3 == {0, 1}
EndTalking == {}
ArgumentsOf == {0} :> 1 @@ {1} :> 0 @@ EndTalking :> 0

SomeSessions ==
  {<<{0}, argument, EndTalking>> : argument \in Byte}
    \cup {<<{1}, EndTalking>>, <<{0, 1}>>}
=============================================================================
