------------------------------ MODULE MCButton -------------------------------
(* An instance of Button with short times, in their order.                   *)
EXTENDS Button
===============================================================================
