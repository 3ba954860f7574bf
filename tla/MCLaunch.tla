------------------------------ MODULE MCLaunch -------------------------------
(* Instances of Launch.  Of 64 addresses, page 0 is the zero page, the stub  *)
(* starts page 1, BASIC page 2; $20, $80, $C0 and $E0 keep their places.     *)
EXTENDS Launch

MCWorkspace == {1, 2, 3}
MCMenu == [kind |-> "menu", size |-> 11, load |-> 24]

Prg(n, a) == [kind |-> "prg", size |-> n, load |-> a]
Crt(n, a) == [kind |-> "crt", size |-> n, load |-> a]

\* A BASIC program, a hybrid, machine programs of a page, of a page and a byte,
\* at an odd place, up to the last address, and one around it; an empty file
\* and one of 64 K; images at $8000 and $E000.
MCFiles ==
  {Prg(15, 17), Prg(15, 11), Prg(10, 24), Prg(11, 24), Prg(4, 35), Prg(10, 56),
   Prg(13, 53), Prg(2, 24), Prg(1, 24), Prg(67, 24),
   Crt(11, 32), Crt(12, 56), Crt(2, 32),
   [kind |-> "plugin", size |-> 10, load |-> 49],
   [kind |-> "koala", size |-> 13, load |-> 0],
   [kind |-> "koala", size |-> 11, load |-> 0],
   [kind |-> "koala", size |-> 12, load |-> 0]}

MCPlugins == {[size |-> 0, load |-> 0], [size |-> 4, load |-> 48], [size |-> 4, load |-> 40],
              [size |-> 9, load |-> 48], [size |-> 6, load |-> 48]}
===============================================================================
