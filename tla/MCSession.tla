----------------------------- MODULE MCSession ------------------------------
(***************************************************************************)
(* The programs of Session: what each one calls.                            *)
(***************************************************************************)
EXTENDS Session

\* A program whose statuses all stay for a millisecond, one whose commands are
\* all collected as they are sent, and one that uses every command.
AllPrograms == {Patient, Fitting, Commands}
=============================================================================
